---- MODULE Spec2Model ----
(***************************************************************************)
(* A model of CommandoBase: an embedded document store over an ordered     *)
(* byte-keyed engine (sled) with three derived index families kept in the  *)
(* same key space as the documents (crates/logic/src/lib.rs), and of the   *)
(* request handlers that share one configuration (crates/server, wasm).    *)
(*                                                                         *)
(* Text is modelled as a sequence of tokens.  A token is one character     *)
(* ("a", ":", ".", "5") or a piece of text no operation of the program     *)
(* ever cuts (a reserved prefix, "true", a field name).  A store key is    *)
(* such a sequence, so the composition of index keys, prefix scans and the *)
(* parsing of keys at ':' are computed as the code computes them.          *)
(***************************************************************************)
EXTENDS Integers, Sequences, FiniteSets, TLC

VARIABLES
    db,         \* sled::Db: store key -> stored bytes
    db_config,  \* the DbConfig the calls are made under (shared by handlers)
    call,       \* the call served last
    ret,        \* what that call returned
    prev,       \* the call served before `call` (history, where it is kept)
    reqs        \* requests in flight in the handlers of the server

vars == <<db, db_config, call, ret, prev, reqs>>

-----------------------------------------------------------------------------
(* Constants of the program *)

GEO_SORTED_INDEX_PREFIX == "__geo_sorted__"
FIELD_INDEX_PREFIX == "__field_index__"
FIELD_SORTED_INDEX_PREFIX == "__field_sorted__"

ReservedPrefixes ==
    {GEO_SORTED_INDEX_PREFIX, FIELD_INDEX_PREFIX, FIELD_SORTED_INDEX_PREFIX}

-----------------------------------------------------------------------------
(* Text *)

Colon == ":"
Dot == "."
Quote == "\""

\* str::starts_with
StartsWith(s, p) ==
    /\ Len(p) <= Len(s)
    /\ SubSeq(s, 1, Len(p)) = p

\* key.starts_with(<a reserved prefix>): the prefix is one token
HasReservedPrefix(k) == Len(k) > 0 /\ k[1] \in ReservedPrefixes

\* str::split(c): the fragments between the occurrences of c, in order
RECURSIVE SplitAt(_, _, _)
SplitAt(s, c, cur) ==
    IF s = <<>> THEN <<cur>>
    ELSE IF Head(s) = c THEN <<cur>> \o SplitAt(Tail(s), c, <<>>)
    ELSE SplitAt(Tail(s), c, Append(cur, Head(s)))

Split(s, c) == SplitAt(s, c, <<>>)

\* str::splitn(n, c): at most n fragments, the last one holding the rest
RECURSIVE SplitNAt(_, _, _, _)
SplitNAt(s, n, c, cur) ==
    IF n <= 1 THEN <<cur \o s>>
    ELSE IF s = <<>> THEN <<cur>>
    ELSE IF Head(s) = c THEN <<cur>> \o SplitNAt(Tail(s), n - 1, c, <<>>)
    ELSE SplitNAt(Tail(s), n, c, Append(cur, Head(s)))

SplitN(s, n, c) == SplitNAt(s, n, c, <<>>)

\* str::trim_matches('"'): every leading and every trailing quote is dropped
RECURSIVE TrimStartQuotes(_)
TrimStartQuotes(s) ==
    IF s /= <<>> /\ Head(s) = Quote THEN TrimStartQuotes(Tail(s)) ELSE s

RECURSIVE TrimEndQuotes(_)
TrimEndQuotes(s) ==
    IF s /= <<>> /\ s[Len(s)] = Quote
    THEN TrimEndQuotes(SubSeq(s, 1, Len(s) - 1))
    ELSE s

TrimQuotes(s) == TrimEndQuotes(TrimStartQuotes(s))

Digit(d) ==
    CASE d = 0 -> "0" [] d = 1 -> "1" [] d = 2 -> "2" [] d = 3 -> "3"
      [] d = 4 -> "4" [] d = 5 -> "5" [] d = 6 -> "6" [] d = 7 -> "7"
      [] d = 8 -> "8" [] d = 9 -> "9"

RECURSIVE NatText(_)
NatText(n) ==
    IF n < 10 THEN <<Digit(n)>> ELSE NatText(n \div 10) \o <<Digit(n % 10)>>

\* the decimal text of an integer (Display of i64, usize)
IntText(n) == IF n < 0 THEN <<"-">> \o NatText(-n) ELSE NatText(n)

-----------------------------------------------------------------------------
(* serde_json::Value: a tagged tree.  An object's fields are a function    *)
(* from field names (one token each) to values; an array is a sequence.    *)

Null == [t |-> "null"]
Bool(b) == [t |-> "bool", v |-> b]
Num(n) == [t |-> "num", v |-> n]
\* a number above i64::MAX, which serde_json holds as a u64: 2^63 + n
UNum(n) == [t |-> "unum", v |-> n]
Str(s) == [t |-> "str", v |-> s]
Arr(a) == [t |-> "arr", v |-> a]
Obj(o) == [t |-> "obj", v |-> o]

is_object(x) == x.t = "obj"
is_array(x) == x.t = "arr"

\* the escaping serde_json applies inside a string literal
RECURSIVE EscapeText(_)
EscapeText(s) ==
    IF s = <<>> THEN <<>>
    ELSE IF Head(s) \in {Quote, "\\"}
         THEN <<"\\", Head(s)>> \o EscapeText(Tail(s))
         ELSE <<Head(s)>> \o EscapeText(Tail(s))

\* the decimal digits of 2^63 = 9223372036854775808 before the last three
TwoTo63Head ==
    <<"9", "2", "2", "3", "3", "7", "2", "0", "3", "6", "8", "5", "4", "7",
      "7", "5">>

\* Value::to_string() of a primitive (of a number above i64::MAX while its
\* last three digits do not carry: n < 192)
to_string(x) ==
    CASE x.t = "null" -> <<"null">>
      [] x.t = "bool" -> IF x.v THEN <<"true">> ELSE <<"false">>
      [] x.t = "num" -> IntText(x.v)
      [] x.t = "unum" -> TwoTo63Head \o NatText(808 + x.v)
      [] x.t = "str" -> <<Quote>> \o EscapeText(x.v) \o <<Quote>>

\* value.to_string().trim_matches('"').to_string(): the text an equality
\* index key carries for a primitive
value_str(x) == TrimQuotes(to_string(x))

\* serde_json::to_vec(value) and the empty payload of an index entry: the
\* stored bytes either are the serialisation of one value or are empty
Serialized(x) == [bytes |-> "json", value |-> x]
EmptyBytes == [bytes |-> "empty"]

\* serde_json::from_slice::<Value>: fails on the empty payload
from_slice(b) ==
    IF b.bytes = "json" THEN [ok |-> TRUE, value |-> b.value]
    ELSE [ok |-> FALSE, err |-> "Serde"]

-----------------------------------------------------------------------------
(* Key schema *)

get_geo_sorted_index_key(field_path, geohash, key) ==
    <<GEO_SORTED_INDEX_PREFIX>> \o field_path \o <<Colon>> \o geohash
        \o <<Colon>> \o key

get_field_index_key(field_path, value, primary_key) ==
    <<FIELD_INDEX_PREFIX>> \o field_path \o <<Colon>> \o value
        \o <<Colon>> \o primary_key

get_field_index_prefix(field_path, value) ==
    <<FIELD_INDEX_PREFIX>> \o field_path \o <<Colon>> \o value \o <<Colon>>

HexDigit(d) ==
    CASE d < 10 -> Digit(d)
      [] d = 10 -> "a" [] d = 11 -> "b" [] d = 12 -> "c"
      [] d = 13 -> "d" [] d = 14 -> "e" [] d = 15 -> "f"

\* hex::encode: two lower-case digits per byte
RECURSIVE hex_encode(_)
hex_encode(bytes) ==
    IF bytes = <<>> THEN <<>>
    ELSE <<HexDigit(Head(bytes) \div 16), HexDigit(Head(bytes) % 16)>>
            \o hex_encode(Tail(bytes))

get_field_sorted_index_key(field_path, encoded_value, key) ==
    <<FIELD_SORTED_INDEX_PREFIX>> \o field_path \o <<Colon>>
        \o hex_encode(encoded_value) \o <<Colon>> \o key

-----------------------------------------------------------------------------
(* Value codec *)

\* i64::to_be_bytes: the w low bytes of n in two's complement, high byte first
RECURSIVE to_be_bytes(_, _)
to_be_bytes(n, w) ==
    IF w = 0 THEN <<>> ELSE to_be_bytes(n \div 256, w - 1) \o <<n % 256>>

\* '\u{FFFF}', the character fetch_keys_sorted_index ends its "<=" range with
MaxChar == "uFFFF"

\* the UTF-8 bytes of one token
TokenBytes(c) ==
    CASE c = "a" -> <<97>> [] c = "b" -> <<98>> [] c = "c" -> <<99>>
      [] c = "d" -> <<100>> [] c = "e" -> <<101>> [] c = "f" -> <<102>>
      [] c = "h" -> <<104>> [] c = "m" -> <<109>> [] c = "n" -> <<110>>
      [] c = "p" -> <<112>> [] c = "t" -> <<116>>
      [] c = "x" -> <<120>> [] c = "y" -> <<121>> [] c = "z" -> <<122>>
      [] c = Colon -> <<58>> [] c = Dot -> <<46>> [] c = Quote -> <<34>>
      [] c = "-" -> <<45>> [] c = "_" -> <<95>>
      [] c = "0" -> <<48>> [] c = "1" -> <<49>>
      [] c = "2" -> <<50>> [] c = "3" -> <<51>> [] c = "4" -> <<52>>
      [] c = "5" -> <<53>> [] c = "6" -> <<54>> [] c = "7" -> <<55>>
      [] c = "8" -> <<56>> [] c = "9" -> <<57>>
      [] c = "true" -> <<116, 114, 117, 101>>
      [] c = "false" -> <<102, 97, 108, 115, 101>>
      [] c = "null" -> <<110, 117, 108, 108>>
      [] c = "loc" -> <<108, 111, 99>>
      [] c = MaxChar -> <<239, 191, 191>>
      [] c = GEO_SORTED_INDEX_PREFIX ->
            <<95, 95, 103, 101, 111, 95, 115, 111, 114, 116, 101, 100, 95, 95>>
      [] c = FIELD_INDEX_PREFIX ->
            <<95, 95, 102, 105, 101, 108, 100, 95, 105, 110, 100, 101, 120,
              95, 95>>
      [] c = FIELD_SORTED_INDEX_PREFIX ->
            <<95, 95, 102, 105, 101, 108, 100, 95, 115, 111, 114, 116, 101,
              100, 95, 95>>

\* str::as_bytes
RECURSIVE as_bytes(_)
as_bytes(s) ==
    IF s = <<>> THEN <<>> ELSE TokenBytes(Head(s)) \o as_bytes(Tail(s))

\* encode_sorted_value: as_i64 answers for a number up to i64::MAX, as_u64
\* for one above it, whose first payload byte is 0x80 or more
encode_sorted_value(x) ==
    CASE x.t = "num" ->
            [ok |-> TRUE, bytes |-> <<1>> \o to_be_bytes(x.v, 8)]
      [] x.t = "unum" ->
            [ok |-> TRUE, bytes |-> <<2, 128>> \o to_be_bytes(x.v, 7)]
      [] x.t = "str" -> [ok |-> TRUE, bytes |-> <<4>> \o as_bytes(x.v)]
      [] x.t = "bool" ->
            [ok |-> TRUE, bytes |-> <<5, IF x.v THEN 1 ELSE 0>>]
      [] OTHER -> [ok |-> FALSE, err |-> "Serde"]

HexTokens ==
    {"0", "1", "2", "3", "4", "5", "6", "7", "8", "9",
     "a", "b", "c", "d", "e", "f"}

HexValue(c) == CHOOSE d \in 0..15 : HexDigit(d) = c

RECURSIVE HexBytes(_)
HexBytes(s) ==
    IF s = <<>> THEN <<>>
    ELSE <<16 * HexValue(s[1]) + HexValue(s[2])>> \o HexBytes(SubSeq(s, 3, Len(s)))

\* hex::decode: fails on an odd length and on a character that is no hex digit
hex_decode(s) ==
    IF Len(s) % 2 = 0 /\ \A i \in 1..Len(s) : s[i] \in HexTokens
    THEN [ok |-> TRUE, bytes |-> HexBytes(s)]
    ELSE [ok |-> FALSE, bytes |-> <<>>]

\* the value of big-endian bytes, given the value of the bytes before them
RECURSIVE FromBytes(_, _)
FromBytes(acc, bytes) ==
    IF bytes = <<>> THEN acc ELSE FromBytes(acc * 256 + Head(bytes), Tail(bytes))

\* a decoder of the i64 payload that reads its low three bytes only
i64_from_low_bytes(bytes) == FromBytes(0, SubSeq(bytes, 6, 8))

\* i64::from_be_bytes: two's complement, the sign in the first byte
i64_from_be_bytes(bytes) ==
    FromBytes(IF bytes[1] >= 128 THEN bytes[1] - 256 ELSE bytes[1], Tail(bytes))

\* u64::from_be_bytes and Number::from(u64): a value of 2^63 or more is
\* held by what it has above 2^63
u64_from_be_bytes(bytes) ==
    IF bytes[1] >= 128 THEN UNum(FromBytes(bytes[1] - 128, Tail(bytes)))
    ELSE Num(FromBytes(0, bytes))

\* the characters a decoded string is made of
CharTokens ==
    {"a", "b", "c", "d", "e", "f", "h", "m", "n", "p", "t", "x", "y", "z",
     Colon, Dot, Quote, "-", "_",
     "0", "1", "2", "3", "4", "5", "6", "7", "8", "9"}

IsCharByte(b) == \E c \in CharTokens : TokenBytes(c) = <<b>>

\* String::from_utf8 of bytes of one-byte characters
RECURSIVE from_utf8(_)
from_utf8(bytes) ==
    IF bytes = <<>> THEN <<>>
    ELSE <<CHOOSE c \in CharTokens : TokenBytes(c) = <<Head(bytes)>> >>
            \o from_utf8(Tail(bytes))

DecodeOk(x) == [ok |-> TRUE, value |-> x]
DecodeErr == [ok |-> FALSE, value |-> Null]

\* decode_sorted_value.  The numbers of the model are integers, so no entry
\* carries the type byte 0x03 of an f64 and that arm is an error here.
decode_sorted_value(encoded) ==
    IF encoded = <<>> THEN DecodeErr
    ELSE CASE encoded[1] = 1 ->
                IF Len(encoded) < 9 THEN DecodeErr
                ELSE DecodeOk(Num(i64_from_be_bytes(SubSeq(encoded, 2, 9))))
           [] encoded[1] = 2 ->
                IF Len(encoded) < 9 THEN DecodeErr
                ELSE DecodeOk(u64_from_be_bytes(SubSeq(encoded, 2, 9)))
           [] encoded[1] = 4 ->
                IF \A i \in 2..Len(encoded) : IsCharByte(encoded[i])
                THEN DecodeOk(Str(from_utf8(Tail(encoded))))
                ELSE DecodeErr
           [] encoded[1] = 5 ->
                IF Len(encoded) < 2 THEN DecodeErr
                ELSE DecodeOk(Bool(encoded[2] /= 0))
           [] OTHER -> DecodeErr

-----------------------------------------------------------------------------
(* Spatial module.  Coordinates are whole degrees; a geohash cell of       *)
(* precision 9 holds at most one point of whole degrees, so the cell of a  *)
(* point is named by the point.                                            *)

\* serde_json::from_value::<GeoPoint>: an object with numeric fields lat and
\* lon (other fields are ignored), or a sequence of exactly two numbers
from_value_GeoPoint(x) ==
    IF /\ x.t = "obj"
       /\ {"lat", "lon"} \subseteq DOMAIN x.v
       /\ x.v["lat"].t = "num"
       /\ x.v["lon"].t = "num"
    THEN [ok |-> TRUE, lat |-> x.v["lat"].v, lon |-> x.v["lon"].v]
    ELSE IF /\ x.t = "arr"
            /\ Len(x.v) = 2
            /\ x.v[1].t = "num"
            /\ x.v[2].t = "num"
    THEN [ok |-> TRUE, lat |-> x.v[1].v, lon |-> x.v[2].v]
    ELSE [ok |-> FALSE, err |-> "Serde"]

\* geohash::encode(coord, GEOHASH_PRECISION): rejects a coordinate out of range
geohash_encode(lat, lon) ==
    IF lon < -180 \/ lon > 180 \/ lat < -90 \/ lat > 90
    THEN [ok |-> FALSE, err |-> "Geohash"]
    ELSE [ok |-> TRUE, hash |-> <<"h">> \o IntText(lat) \o <<"_">> \o IntText(lon)]

\* the geospatial key of a point under its geohash, or the Geohash error
GeoKeyOf(h, field_path, key) ==
    IF h.ok
    THEN [ok |-> TRUE, err |-> "none",
          keys |-> {get_geo_sorted_index_key(field_path, h.hash, key)}]
    ELSE [ok |-> FALSE, err |-> "Geohash", keys |-> {}]

\* index_geospatial_field: the key it inserts on the transaction
index_geospatial_field(key, field_path, point) ==
    GeoKeyOf(geohash_encode(point.lat, point.lon), field_path, key)

\* remove_geospatial_index: the key it removes on the transaction
remove_geospatial_index(key, field_path, point) ==
    GeoKeyOf(geohash_encode(point.lat, point.lon), field_path, key)

-----------------------------------------------------------------------------
(* Index maintainer.  The two walks return the index keys they insert or   *)
(* remove (geospatial keys directly on the transaction, the others through *)
(* the batch), or the error that ends the walk.                            *)

Ok(keys) == [ok |-> TRUE, keys |-> keys, err |-> "none"]

\* the walk over the members of a container: the first error ends it
Collect(parts) ==
    IF \A r \in parts : r.ok
    THEN Ok(UNION {r.keys : r \in parts})
    ELSE [ok |-> FALSE, keys |-> {}, err |-> (CHOOSE r \in parts : ~r.ok).err]

\* format!("{}.{}", current_path, field_name), or the name alone at the root
FieldPath(current_path, field_name) ==
    IF current_path = <<>> THEN <<field_name>>
    ELSE current_path \o <<Dot, field_name>>

\* format!("{}.{}", current_path, index)
ElementPath(current_path, index) == current_path \o <<Dot>> \o IntText(index)

\* the sorted entry of a value the codec encodes (if let Ok(encoded))
SortedKeyOf(enc, path, key) ==
    IF enc.ok THEN {get_field_sorted_index_key(path, enc.bytes, key)} ELSE {}

\* the equality and sorted entries of one primitive at an indexed path
PrimitiveIndexKeys(key, path, x, config) ==
    (IF path \in config.hash_indexed_fields
     THEN {get_field_index_key(path, value_str(x), key)} ELSE {})
    \cup
    (IF path \in config.sorted_indexed_fields
     THEN SortedKeyOf(encode_sorted_value(x), path, key) ELSE {})

\* the entries of one array element against the array's path
ElementIndexKeys(key, path, elem, config) ==
    (IF /\ path \in config.hash_indexed_fields
        /\ ~is_object(elem)
        /\ ~is_array(elem)
     THEN {get_field_index_key(path, value_str(elem), key)} ELSE {})
    \cup
    (IF path \in config.sorted_indexed_fields
     THEN SortedKeyOf(encode_sorted_value(elem), path, key) ELSE {})

\* one field of an object: the geospatial step, then the walk into the field
FieldWalk(geo, sub) == IF geo.ok THEN Collect({geo, sub}) ELSE geo

\* one element of an array: the walk into it, then its entries
ElementWalk(sub, entries) == IF sub.ok THEN Ok(sub.keys \cup entries) ELSE sub

\* if config.geo_indexed_fields.contains(&new_path) { if let Ok(geo_point) ...
IndexGeoField(key, new_path, gp, config) ==
    IF new_path \in config.geo_indexed_fields /\ gp.ok
    THEN index_geospatial_field(key, new_path, gp)
    ELSE Ok({})

RemoveGeoField(key, new_path, gp, config) ==
    IF new_path \in config.geo_indexed_fields /\ gp.ok
    THEN remove_geospatial_index(key, new_path, gp)
    ELSE Ok({})

RECURSIVE index_value_recursive(_, _, _, _)
index_value_recursive(key, current_path, value, config) ==
    CASE value.t = "obj" ->
            Collect({FieldWalk(
                        IndexGeoField(key, FieldPath(current_path, f),
                                      from_value_GeoPoint(value.v[f]), config),
                        index_value_recursive(key, FieldPath(current_path, f),
                                              value.v[f], config))
                     : f \in DOMAIN value.v})
      [] value.t = "arr" ->
            Collect({ElementWalk(
                        index_value_recursive(key, ElementPath(current_path, i - 1),
                                              value.v[i], config),
                        ElementIndexKeys(key, current_path, value.v[i], config))
                     : i \in 1..Len(value.v)})
      [] OTHER -> Ok(PrimitiveIndexKeys(key, current_path, value, config))

RECURSIVE remove_indices_recursive(_, _, _, _)
remove_indices_recursive(key, current_path, value, config) ==
    CASE value.t = "obj" ->
            Collect({FieldWalk(
                        RemoveGeoField(key, FieldPath(current_path, f),
                                       from_value_GeoPoint(value.v[f]), config),
                        remove_indices_recursive(key, FieldPath(current_path, f),
                                                 value.v[f], config))
                     : f \in DOMAIN value.v})
      [] value.t = "arr" ->
            Collect({ElementWalk(
                        remove_indices_recursive(key, ElementPath(current_path, i - 1),
                                                 value.v[i], config),
                        ElementIndexKeys(key, current_path, value.v[i], config))
                     : i \in 1..Len(value.v)})
      [] OTHER -> Ok(PrimitiveIndexKeys(key, current_path, value, config))

-----------------------------------------------------------------------------
(* Storage: the tree a transaction works on is a function from keys to     *)
(* stored bytes.  A transaction that aborts leaves the store as it was.    *)

tree_has(tree, key) == key \in DOMAIN tree
tree_get(tree, key) == IF key \in DOMAIN tree THEN tree[key] ELSE EmptyBytes

tree_insert(tree, key, bytes) ==
    [x \in DOMAIN tree \cup {key} |-> IF x = key THEN bytes ELSE tree[x]]

\* a batch of removals (also the direct removes of the geospatial keys)
tree_remove_all(tree, keys) == [x \in DOMAIN tree \ keys |-> tree[x]]

\* a batch of insertions of empty payloads
tree_insert_all(tree, keys) ==
    [x \in DOMAIN tree \cup keys |-> IF x \in keys THEN EmptyBytes ELSE tree[x]]

TxOk(tree) == [ok |-> TRUE, tree |-> tree, err |-> "none", key |-> <<>>]
TxErr(tree, e, key) == [ok |-> FALSE, tree |-> tree, err |-> e, key |-> key]

\* the removal walk over the value stored at key, when one is stored and parses
StoredIndexKeys(stored, key, config) ==
    IF stored.ok THEN remove_indices_recursive(key, <<>>, stored.value, config)
    ELSE Ok({})

OldIndexKeys(tree, key, config) ==
    IF tree_has(tree, key)
    THEN StoredIndexKeys(from_slice(tree_get(tree, key)), key, config)
    ELSE Ok({})

\* an ApplySet that leaves out the removals
ApplySetKeepsOld(tree, key, value, removal, creation) ==
    IF ~removal.ok THEN TxErr(tree, removal.err, <<>>)
    ELSE IF ~creation.ok THEN TxErr(tree, creation.err, <<>>)
    ELSE TxOk(tree_insert_all(tree_insert(tree, key, Serialized(value)),
                              creation.keys))

\* apply the removals, insert the document, apply the creations
ApplySet(tree, key, value, removal, creation) ==
    IF ~removal.ok THEN TxErr(tree, removal.err, <<>>)
    ELSE IF ~creation.ok THEN TxErr(tree, creation.err, <<>>)
    ELSE TxOk(tree_insert_all(
                tree_insert(tree_remove_all(tree, removal.keys),
                            key, Serialized(value)),
                creation.keys))

set_key_internal(tree, key, value, config) ==
    ApplySet(tree, key, value,
             OldIndexKeys(tree, key, config),
             index_value_recursive(key, <<>>, value, config))

\* removal_batch.remove(key_bytes) joins the removals of the index keys
ApplyDelete(tree, key, removal) ==
    IF ~removal.ok THEN TxErr(tree, removal.err, <<>>)
    ELSE TxOk(tree_remove_all(tree, removal.keys \cup {key}))

delete_key_internal(tree, key, config) ==
    IF tree_has(tree, key)
    THEN ApplyDelete(tree, key, OldIndexKeys(tree, key, config))
    ELSE TxOk(tree)

-----------------------------------------------------------------------------
(* The write path of the library.  Each function returns the store after   *)
(* the call and the Result: ok, or the error and the key it names.         *)

Done(tree, out) == [ok |-> TRUE, db |-> tree, err |-> "none", key |-> <<>>, out |-> out]
Failed(tree, e, key) == [ok |-> FALSE, db |-> tree, err |-> e, key |-> key, out |-> <<>>]

\* a transaction that keeps what its body wrote before it aborted
TransactionKeepsPartial(tree, r, out) ==
    IF r.ok THEN Done(r.tree, out) ELSE Failed(r.tree, r.err, r.key)

\* db.transaction(body): commits the tree the body left, or, when the body
\* aborts, leaves the store as it was and returns the body's error
Transaction(tree, r, out) ==
    IF r.ok THEN Done(r.tree, out) ELSE Failed(tree, r.err, r.key)

set_key(tree, key, value, config) ==
    Transaction(tree, set_key_internal(tree, key, value, config), <<>>)

delete_key(tree, key, config) ==
    Transaction(tree, delete_key_internal(tree, key, config), <<>>)

SetOp(key, value) == [type |-> "set", key |-> key, value |-> value]
DeleteOp(key) == [type |-> "delete", key |-> key, value |-> Null]

\* one operation of a list, on the tree the earlier ones left
RunOperation(tree, op, config) ==
    IF op.type = "set" THEN set_key_internal(tree, op.key, op.value, config)
    ELSE delete_key_internal(tree, op.key, config)

\* map_err(|e| Abort(TransactionOperationFailed(format!("... key '{}' ...")))
OperationFailed(tree, key) == TxErr(tree, "TransactionOperationFailed", key)

\* the body of a transaction over a list of operations: the first failure
\* ends the body
RECURSIVE run_operations(_, _, _)
Continue(r, key, rest, config) ==
    IF r.ok THEN run_operations(r.tree, rest, config)
    ELSE OperationFailed(r.tree, key)

run_operations(tree, operations, config) ==
    IF operations = <<>> THEN TxOk(tree)
    ELSE Continue(RunOperation(tree, Head(operations), config),
                  Head(operations).key, Tail(operations), config)

batch_set(tree, items, config) ==
    Transaction(tree, run_operations(tree, items, config), <<>>)

execute_transaction(tree, operations, config) ==
    Transaction(tree, run_operations(tree, operations, config), <<>>)

\* serde_json::from_slice of the stored bytes, as get_key returns it
Parsed(tree, val) ==
    IF val.ok THEN Done(tree, val.value) ELSE Failed(tree, "Serde", <<>>)

get_key(tree, key) ==
    IF ~tree_has(tree, key) THEN Failed(tree, "NotFound", <<>>)
    ELSE Parsed(tree, from_slice(tree_get(tree, key)))

\* db.iter() without the keys under a reserved prefix
get_all_keys(tree) == {k \in DOMAIN tree : ~HasReservedPrefix(k)}

\* the transaction of clear_prefix and drop_database: delete_key_internal for
\* every listed key.  The deletions of distinct listed keys commute, so the
\* order of the list is not modelled.
RECURSIVE delete_keys(_, _, _)
ContinueDelete(r, key, rest, config) ==
    IF r.ok THEN delete_keys(r.tree, rest \ {key}, config)
    ELSE OperationFailed(r.tree, key)

DeleteOne(tree, key, keys, config) ==
    ContinueDelete(delete_key_internal(tree, key, config), key, keys, config)

delete_keys(tree, keys, config) ==
    IF keys = {} THEN TxOk(tree)
    ELSE DeleteOne(tree, CHOOSE x \in keys : TRUE, keys, config)

\* if count > 0 { db.transaction(...) }; Ok(count)
DeleteListed(tree, keys, config) ==
    Transaction(tree, delete_keys(tree, keys, config), Cardinality(keys))

clear_prefix(tree, prefix, config) ==
    DeleteListed(tree,
        {k \in DOMAIN tree : StartsWith(k, prefix) /\ ~HasReservedPrefix(k)},
        config)

drop_database(tree, config) == DeleteListed(tree, get_all_keys(tree), config)

\* item.get("key").and_then(Value::as_str)
ItemHasKey(item) ==
    /\ is_object(item)
    /\ "key" \in DOMAIN item.v
    /\ item.v["key"].t = "str"

\* item.get("value")
ItemHasValue(item) == is_object(item) /\ "value" \in DOMAIN item.v

\* import_data: one set_key, a transaction of its own, per item, in order; an
\* item without a string "key" or without a "value" ends the import there
RECURSIVE import_data(_, _, _)
ContinueImport(r, rest, config) ==
    IF r.ok THEN import_data(r.db, rest, config) ELSE r

ImportItem(tree, item, rest, config) ==
    IF ~ItemHasKey(item) THEN Failed(tree, "ImportError", <<>>)
    ELSE IF ~ItemHasValue(item) THEN Failed(tree, "ImportError", <<>>)
    ELSE ContinueImport(
            set_key(tree, item.v["key"].v, item.v["value"], config), rest, config)

import_data(tree, json_data, config) ==
    IF json_data = <<>> THEN Done(tree, <<>>)
    ELSE ImportItem(tree, Head(json_data), Tail(json_data), config)

-----------------------------------------------------------------------------
(* The read path: equality lookups, hydration and the Eq and Includes      *)
(* leaves of the query executor.  A result maps each primary key that was  *)
(* hydrated to the document read for it: the Vec the code returns holds    *)
(* these documents, one per key, in no specified order.                    *)

DigitTokens == {"0", "1", "2", "3", "4", "5", "6", "7", "8", "9"}

DigitValue(c) ==
    CASE c = "0" -> 0 [] c = "1" -> 1 [] c = "2" -> 2 [] c = "3" -> 3
      [] c = "4" -> 4 [] c = "5" -> 5 [] c = "6" -> 6 [] c = "7" -> 7
      [] c = "8" -> 8 [] c = "9" -> 9

IsDigits(s) == s /= <<>> /\ \A i \in 1..Len(s) : s[i] \in DigitTokens

\* str::parse of a text of digits
RECURSIVE ParseNat(_)
ParseNat(s) ==
    IF s = <<>> THEN 0
    ELSE 10 * ParseNat(SubSeq(s, 1, Len(s) - 1)) + DigitValue(s[Len(s)])

\* NUM_RE on a text without a fraction: ^-?\d+$
IsIntegerText(s) ==
    \/ IsDigits(s)
    \/ Len(s) > 1 /\ s[1] = "-" /\ IsDigits(Tail(s))

ParseInt(s) == IF s[1] = "-" THEN 0 - ParseNat(Tail(s)) ELSE ParseNat(s)

\* parse_value: the value a condition's text stands for
parse_value(text) ==
    IF text = <<"true">> THEN Bool(TRUE)
    ELSE IF text = <<"false">> THEN Bool(FALSE)
    ELSE IF IsIntegerText(text) THEN Num(ParseInt(text))
    ELSE Str(TrimQuotes(text))

\* slice::partial_cmp of two byte strings
RECURSIVE CompareBytes(_, _)
CompareBytes(a, b) ==
    IF a = <<>> THEN (IF b = <<>> THEN "Equal" ELSE "Less")
    ELSE IF b = <<>> THEN "Greater"
    ELSE IF Head(a) < Head(b) THEN "Less"
    ELSE IF Head(a) > Head(b) THEN "Greater"
    ELSE CompareBytes(Tail(a), Tail(b))

CompareInts(a, b) ==
    IF a < b THEN "Less" ELSE IF a > b THEN "Greater" ELSE "Equal"

BoolRank(b) == IF b THEN 1 ELSE 0

\* Number::as_f64 of 2^63 + n: the doubles from 2^63 to 2^64 are 2048 apart
\* and the nearest is taken, the one of even mantissa on a tie.  The result
\* is the count of steps of 2048 above 2^63.
f64_above(n) ==
    IF n % 2048 < 1024 THEN n \div 2048
    ELSE IF n % 2048 > 1024 THEN (n \div 2048) + 1
    ELSE (n \div 2048) + ((n \div 2048) % 2)

IsNumber(x) == x.t \in {"num", "unum"}

\* f1.partial_cmp(&f2) of the doubles of two numbers (an integer of the model
\* below 2^31 in size is its own double)
CompareNumbers(n1, n2) ==
    IF n1.t /= n2.t THEN (IF n1.t = "num" THEN "Less" ELSE "Greater")
    ELSE IF n1.t = "num" THEN CompareInts(n1.v, n2.v)
    ELSE CompareInts(f64_above(n1.v), f64_above(n2.v))

\* compare_values: the ordering of two values of one kind, "None" otherwise
compare_values(v1, v2) ==
    CASE IsNumber(v1) /\ IsNumber(v2) -> CompareNumbers(v1, v2)
      [] v1.t = "str" /\ v2.t = "str" -> CompareBytes(as_bytes(v1.v), as_bytes(v2.v))
      [] v1.t = "bool" /\ v2.t = "bool" -> CompareInts(BoolRank(v1.v), BoolRank(v2.v))
      [] v1.t = "null" /\ v2.t = "null" -> "Equal"
      [] OTHER -> "None"

\* Value == Value
ValueEq(a, b) == a.t = b.t /\ a = b

Some(x) == [some |-> TRUE, value |-> x]
None == [some |-> FALSE, value |-> Null]

\* get_value_by_path: one fragment of the path at a time
RECURSIVE WalkPath(_, _)
StepPath(current, part, rest) ==
    IF is_object(current)
    THEN IF Len(part) = 1 /\ part[1] \in DOMAIN current.v
         THEN WalkPath(current.v[part[1]], rest)
         ELSE None
    ELSE IF is_array(current)
    THEN IF IsDigits(part) /\ ParseNat(part) < Len(current.v)
         THEN WalkPath(current.v[ParseNat(part) + 1], rest)
         ELSE None
    ELSE None

WalkPath(current, parts) ==
    IF parts = <<>> THEN Some(current)
    ELSE StepPath(current, Head(parts), Tail(parts))

get_value_by_path(value, path) == WalkPath(value, Split(path, Dot))

\* the match of evaluate_condition_on_doc on the value found at the path
ConditionOnValue(doc_value, operator, query_value) ==
    CASE operator = "Eq" -> ValueEq(doc_value, query_value)
      [] operator = "Includes" ->
            IF is_array(doc_value)
            THEN \E i \in 1..Len(doc_value.v) : ValueEq(doc_value.v[i], query_value)
            ELSE ValueEq(doc_value, query_value)
      [] operator = "Gt" -> compare_values(doc_value, query_value) = "Greater"
      [] operator = "Lt" -> compare_values(doc_value, query_value) = "Less"
      [] operator = "Gte" ->
            compare_values(doc_value, query_value) \in {"Greater", "Equal"}
      [] operator = "Lte" ->
            compare_values(doc_value, query_value) \in {"Less", "Equal"}
      [] operator = "Ne" -> compare_values(doc_value, query_value) /= "Equal"
      [] OTHER -> FALSE

\* parts[..parts.len()-1].join(".")
RECURSIVE Join(_, _)
Join(parts, sep) ==
    IF parts = <<>> THEN <<>>
    ELSE IF Len(parts) = 1 THEN parts[1]
    ELSE parts[1] \o <<sep>> \o Join(Tail(parts), sep)

RECURSIVE evaluate_condition_on_doc(_, _, _, _)
\* the path is not in the document: any element of the array at the parent
\* path that has the last fragment as a field
ConditionOnParent(parent, last_part, operator, query_value) ==
    /\ parent.some
    /\ is_array(parent.value)
    /\ Len(last_part) = 1
    /\ \E i \in 1..Len(parent.value.v) :
          /\ is_object(parent.value.v[i])
          /\ last_part[1] \in DOMAIN parent.value.v[i].v
          /\ evaluate_condition_on_doc(parent.value.v[i].v[last_part[1]], <<>>,
                                       operator, query_value)

ConditionOnMissing(doc, parts, operator, query_value) ==
    /\ Len(parts) > 1
    /\ ConditionOnParent(
          get_value_by_path(doc, Join(SubSeq(parts, 1, Len(parts) - 1), Dot)),
          parts[Len(parts)], operator, query_value)

ConditionOnFound(found, doc, field_path, operator, query_value) ==
    IF found.some THEN ConditionOnValue(found.value, operator, query_value)
    ELSE ConditionOnMissing(doc, Split(field_path, Dot), operator, query_value)

evaluate_condition_on_doc(doc, field_path, operator, query_value) ==
    ConditionOnFound(get_value_by_path(doc, field_path), doc, field_path,
                     operator, query_value)

\* index_key_str.split(':').last()
LastFragment(parts) == parts[Len(parts)]

\* fetch_keys_hash_index: the prefix scan for (field_path, text of the value)
\* and, of each key scanned, the text after its last ':'
fetch_keys_hash_index(tree, field_path, value) ==
    {LastFragment(Split(x, Colon)) :
        x \in {y \in DOMAIN tree :
                StartsWith(y, get_field_index_prefix(field_path, value_str(value)))}}

\* std::ops::Bound over the bytes of keys
Included(b) == [bound |-> "Included", bytes |-> b]
Excluded(b) == [bound |-> "Excluded", bytes |-> b]
Unbounded == [bound |-> "Unbounded", bytes |-> <<>>]

AboveStart(kb, start) ==
    CASE start.bound = "Included" -> CompareBytes(kb, start.bytes) /= "Less"
      [] start.bound = "Excluded" -> CompareBytes(kb, start.bytes) = "Greater"
      [] OTHER -> TRUE

BelowEnd(kb, end) ==
    CASE end.bound = "Included" -> CompareBytes(kb, end.bytes) /= "Greater"
      [] end.bound = "Excluded" -> CompareBytes(kb, end.bytes) = "Less"
      [] OTHER -> TRUE

\* db.range(range): the keys of the store, whatever they are, between the
\* bounds in the byte order of the engine
tree_range(tree, start, end) ==
    {k \in DOMAIN tree :
        AboveStart(as_bytes(k), start) /\ BelowEnd(as_bytes(k), end)}

\* db.scan_prefix(prefix)
scan_prefix(tree, prefix) == {k \in DOMAIN tree : StartsWith(k, prefix)}

get_field_sorted_index_prefix(field_path) ==
    <<FIELD_SORTED_INDEX_PREFIX>> \o field_path \o <<Colon>>

\* the keys the iterator of fetch_keys_sorted_index yields for an operator;
\* encoded is the encoding of the query value
SortedScan(tree, field_path, operator, encoded) ==
    CASE operator = ">" ->
            tree_range(tree,
                Excluded(as_bytes(get_field_sorted_index_key(field_path, encoded, <<>>))),
                Unbounded)
      [] operator = ">=" ->
            tree_range(tree,
                Included(as_bytes(get_field_sorted_index_key(field_path, encoded, <<>>))),
                Unbounded)
      [] operator = "<" ->
            tree_range(tree,
                Included(as_bytes(get_field_sorted_index_prefix(field_path))),
                Excluded(as_bytes(get_field_sorted_index_key(field_path, encoded, <<>>))))
      [] operator = "<=" ->
            tree_range(tree,
                Included(as_bytes(get_field_sorted_index_prefix(field_path))),
                Included(as_bytes(get_field_sorted_index_key(field_path, encoded,
                                                             <<MaxChar>>))))
      [] operator = "!=" ->
            scan_prefix(tree, get_field_sorted_index_prefix(field_path))

\* let matches = match operator { ... } on the ordering compare_values gave
SortedMatches(operator, comparison_result) ==
    CASE operator = ">" -> comparison_result = "Greater"
      [] operator = "<" -> comparison_result = "Less"
      [] operator = ">=" -> comparison_result \in {"Greater", "Equal"}
      [] operator = "<=" -> comparison_result \in {"Less", "Equal"}
      [] operator = "!=" -> comparison_result /= "Equal"
      [] OTHER -> FALSE

\* the stored encoding of a scanned key: the type byte of the query value,
\* then the decoding and the comparison with the query value
StoredMatches(stored, operator, value) ==
    /\ stored.ok
    /\ SortedMatches(operator, compare_values(stored.value, value))

EncodedMatches(stored_encoded, operator, value, query_type) ==
    /\ stored_encoded.ok
    /\ stored_encoded.bytes /= <<>>
    /\ stored_encoded.bytes[1] = query_type
    /\ StoredMatches(decode_sorted_value(stored_encoded.bytes), operator, value)

\* one key of the scan, cut by splitn(4, ':'): parts[1] is compared with the
\* field path, parts[2] is the hex text and parts[3] the primary key
SortedEntryKeys(parts, field_path, operator, value, query_type) ==
    IF /\ Len(parts) >= 4
       /\ parts[2] = field_path
       /\ EncodedMatches(hex_decode(parts[3]), operator, value, query_type)
    THEN {parts[4]}
    ELSE {}

SortedKeysOf(tree, field_path, operator, value, encoded) ==
    UNION {SortedEntryKeys(SplitN(k, 4, Colon), field_path, operator, value,
                           encoded[1])
           : k \in SortedScan(tree, field_path, operator, encoded)}

\* fetch_keys_sorted_index: the primary keys, or the error of the encoding
KeysOk(keys) == [ok |-> TRUE, err |-> "none", keys |-> keys]
KeysErr(e) == [ok |-> FALSE, err |-> e, keys |-> {}]

SortedKeysEncoded(tree, field_path, operator, value, enc) ==
    IF ~enc.ok THEN KeysErr("Serde")
    ELSE IF operator \notin {">", "<", ">=", "<=", "!="} THEN KeysErr("AstQueryError")
    ELSE KeysOk(SortedKeysOf(tree, field_path, operator, value, enc.bytes))

fetch_keys_sorted_index(tree, field_path, operator, value) ==
    SortedKeysEncoded(tree, field_path, operator, value, encode_sorted_value(value))

QOk(docs) == [ok |-> TRUE, err |-> "none", docs |-> docs]
QErr(e) == [ok |-> FALSE, err |-> e, docs |-> <<>>]

get_geo_sorted_index_prefix_for_hash(field_path, geohash) ==
    <<GEO_SORTED_INDEX_PREFIX>> \o field_path \o <<Colon>> \o geohash \o <<Colon>>

get_geo_sorted_index_prefix_for_field(field_path) ==
    <<GEO_SORTED_INDEX_PREFIX>> \o field_path \o <<Colon>>

\* geohash::neighbors on the grid of whole degrees: the eight cells around a
\* cell (the inputs keep away from the poles and the date line)
geohash_neighbors(lat, lon) ==
    {geohash_encode(lat + i, lon + j).hash :
        i \in {-1, 0, 1}, j \in {-1, 0, 1}} \ {geohash_encode(lat, lon).hash}

Abs(x) == IF x < 0 THEN 0 - x ELSE x

\* haversine_distance, on the grid: the degrees between two points
haversine_distance(p, q) == Abs(p.lat - q.lat) + Abs(p.lon - q.lon)

\* Rect::new(c1, c2).contains(point): the corners in either order (the
\* points of the inputs are not on the border of a rectangle)
RectContains(lat1, lon1, lat2, lon2, p) ==
    /\ (IF lat1 < lat2 THEN lat1 ELSE lat2) <= p.lat
    /\ p.lat <= (IF lat1 < lat2 THEN lat2 ELSE lat1)
    /\ (IF lon1 < lon2 THEN lon1 ELSE lon2) <= p.lon
    /\ p.lon <= (IF lon1 < lon2 THEN lon2 ELSE lon1)

\* one scanned key of a geospatial query, cut at every ':': a key of fewer
\* than 4 parts is skipped, parts[1] is compared with the field path, the
\* last part is the primary key
GeoCandidates(parts, field_path) ==
    IF Len(parts) >= 4 /\ parts[2] = field_path THEN {LastFragment(parts)} ELSE {}

GeoCandidatesOf(keys, field_path) ==
    UNION {GeoCandidates(Split(k, Colon), field_path) : k \in keys}

\* the test a geospatial query puts a point to
RadiusTest(center, radius_meters) ==
    [shape |-> "radius", center |-> center, radius |-> radius_meters,
     min_lat |-> 0, min_lon |-> 0, max_lat |-> 0, max_lon |-> 0]
BoxTest(min_lat, min_lon, max_lat, max_lon) ==
    [shape |-> "box", center |-> [lat |-> 0, lon |-> 0], radius |-> 0,
     min_lat |-> min_lat, min_lon |-> min_lon, max_lat |-> max_lat,
     max_lon |-> max_lon]

\* distance <= radius_meters, or bounding_box.contains(&entry_point)
Within(test, p) ==
    IF test.shape = "radius"
    THEN haversine_distance(p, test.center) <= test.radius
    ELSE RectContains(test.min_lat, test.min_lon, test.max_lat, test.max_lon, p)

\* the GeoPoint a hydrated document holds at the path, if it holds one
PointAt(found) ==
    IF found.some THEN from_value_GeoPoint(found.value)
    ELSE [ok |-> FALSE, err |-> "Missing"]

\* match get_key(db, primary_key): a candidate without a document is passed
\* over, any other error ends the query, a document is kept when its point
\* passes the test of the query
GeoResults(tree, candidates, field_path, test) ==
    IF \E k \in candidates :
          tree_has(tree, k) /\ ~from_slice(tree_get(tree, k)).ok
    THEN QErr("Serde")
    ELSE QOk([k \in {x \in candidates :
                        /\ tree_has(tree, x)
                        /\ PointAt(get_value_by_path(tree[x].value, field_path)).ok
                        /\ Within(test,
                                  PointAt(get_value_by_path(tree[x].value,
                                                            field_path)))}
              |-> tree[k].value])

\* the keys under the prefixes of the centre's cell and of its neighbours
RadiusScan(tree, field_path, hashes) ==
    UNION {scan_prefix(tree, get_geo_sorted_index_prefix_for_hash(field_path, h))
           : h \in hashes}

RadiusQuery(tree, field_path, center, radius_meters, center_hash) ==
    IF ~center_hash.ok THEN QErr("Geohash")
    ELSE GeoResults(tree,
            GeoCandidatesOf(
                RadiusScan(tree, field_path,
                    {center_hash.hash} \cup geohash_neighbors(center.lat, center.lon)),
                field_path),
            field_path,
            RadiusTest(center, radius_meters))

query_within_radius_simplified(tree, field_path, center_lat, center_lon, radius_meters) ==
    RadiusQuery(tree, field_path, [lat |-> center_lat, lon |-> center_lon],
                radius_meters, geohash_encode(center_lat, center_lon))

query_in_box(tree, field_path, min_lat, min_lon, max_lat, max_lon) ==
    GeoResults(tree,
        GeoCandidatesOf(
            scan_prefix(tree, get_geo_sorted_index_prefix_for_field(field_path)),
            field_path),
        field_path,
        BoxTest(min_lat, min_lon, max_lat, max_lon))

\* fetch_documents: get_key of every key, collected into one Result, so one
\* key without a document fails the whole
fetch_documents(tree, keys) ==
    IF \E k \in keys : ~tree_has(tree, k) THEN QErr("NotFound")
    ELSE IF \E k \in keys : ~from_slice(tree_get(tree, k)).ok THEN QErr("Serde")
    ELSE QOk([k \in keys |-> tree[k].value])

\* .filter(|doc| evaluate_condition_on_doc(doc, field, operator, value))
FilterDocuments(r, field, operator, value) ==
    IF r.ok
    THEN QOk([k \in {x \in DOMAIN r.docs :
                        evaluate_condition_on_doc(r.docs[x], field, operator, value)}
              |-> r.docs[k]])
    ELSE r

Eq(field, value) == [op |-> "Eq", field |-> field, value |-> value]
Includes(field, value) == [op |-> "Includes", field |-> field, value |-> value]

\* the Eq leaf: the documents of the keys the index yields, or, when it yields
\* none and the field is configured, the full scan with the Eq filter
EqLeaf(tree, keys, field, value, config) ==
    IF keys = {} /\ field \in config.hash_indexed_fields
    THEN FilterDocuments(fetch_documents(tree, get_all_keys(tree)), field, "Eq", value)
    ELSE fetch_documents(tree, keys)

Gt(field, value) == [op |-> "Gt", field |-> field, value |-> value]
Lt(field, value) == [op |-> "Lt", field |-> field, value |-> value]
Gte(field, value) == [op |-> "Gte", field |-> field, value |-> value]
Lte(field, value) == [op |-> "Lte", field |-> field, value |-> value]
Ne(field, value) == [op |-> "Ne", field |-> field, value |-> value]
And(left, right) == [op |-> "And", left |-> left, right |-> right]
Or(left, right) == [op |-> "Or", left |-> left, right |-> right]
Not(node) == [op |-> "Not", node |-> node]
GeoWithinRadius(field, lat, lon, radius) ==
    [op |-> "GeoWithinRadius", field |-> field, lat |-> lat, lon |-> lon,
     radius |-> radius]
GeoInBox(field, min_lat, min_lon, max_lat, max_lon) ==
    [op |-> "GeoInBox", field |-> field, min_lat |-> min_lat,
     min_lon |-> min_lon, max_lat |-> max_lat, max_lon |-> max_lon]

\* the operator text a leaf hands to fetch_keys_sorted_index
SortedOperatorOf(op) ==
    CASE op = "Gt" -> ">" [] op = "Lt" -> "<" [] op = "Gte" -> ">="
      [] op = "Lte" -> "<=" [] op = "Ne" -> "!="

\* the leaves of the ordered operators: fetch_keys_sorted_index(...)? and
\* then fetch_documents, with no check of the documents
SortedLeaf(tree, keys) ==
    IF keys.ok THEN fetch_documents(tree, keys.keys) ELSE QErr(keys.err)

\* the documents of a result, as the HashSet<HashableValue> built of them
DocSet(r) == {r.docs[x] : x \in DOMAIN r.docs}

\* a result made of a set of documents: each stands once, under itself
ByValue(documents) == [d \in documents |-> d]

\* an intersection by primary key, which keeps equal documents apart
AndResultsByKey(left_results, right_results) ==
    IF ~left_results.ok THEN left_results
    ELSE IF ~right_results.ok THEN right_results
    ELSE QOk([k \in DOMAIN left_results.docs \cap DOMAIN right_results.docs
                |-> left_results.docs[k]])

\* And: the left result, then the right, then the documents in both
AndResults(left_results, right_results) ==
    IF ~left_results.ok THEN left_results
    ELSE IF ~right_results.ok THEN right_results
    ELSE QOk(ByValue(DocSet(left_results) \cap DocSet(right_results)))

\* Or: the documents in either
OrResults(left_results, right_results) ==
    IF ~left_results.ok THEN left_results
    ELSE IF ~right_results.ok THEN right_results
    ELSE QOk(ByValue(DocSet(left_results) \cup DocSet(right_results)))

\* Not: every document of the store, then the child's result, then the
\* documents that are not among the child's
NotResults(all_docs, excluded_docs) ==
    IF ~all_docs.ok THEN all_docs
    ELSE IF ~excluded_docs.ok THEN excluded_docs
    ELSE QOk([k \in {x \in DOMAIN all_docs.docs :
                        all_docs.docs[x] \notin DocSet(excluded_docs)}
              |-> all_docs.docs[k]])

\* execute_ast_query without projection, limit or offset
RECURSIVE execute_ast_query(_, _, _)
execute_ast_query(tree, query_node, config) ==
    CASE query_node.op = "Eq" ->
            EqLeaf(tree,
                   fetch_keys_hash_index(tree, query_node.field, query_node.value),
                   query_node.field, query_node.value, config)
      [] query_node.op = "Includes" ->
            FilterDocuments(
                fetch_documents(tree,
                    fetch_keys_hash_index(tree, query_node.field, query_node.value)),
                query_node.field, "Includes", query_node.value)
      [] query_node.op \in {"Gt", "Lt", "Gte", "Lte", "Ne"} ->
            SortedLeaf(tree,
                fetch_keys_sorted_index(tree, query_node.field,
                    SortedOperatorOf(query_node.op), query_node.value))
      [] query_node.op = "And" ->
            AndResults(execute_ast_query(tree, query_node.left, config),
                       execute_ast_query(tree, query_node.right, config))
      [] query_node.op = "Or" ->
            OrResults(execute_ast_query(tree, query_node.left, config),
                      execute_ast_query(tree, query_node.right, config))
      [] query_node.op = "Not" ->
            NotResults(fetch_documents(tree, get_all_keys(tree)),
                       execute_ast_query(tree, query_node.node, config))
      [] query_node.op = "GeoWithinRadius" ->
            query_within_radius_simplified(tree, query_node.field,
                query_node.lat, query_node.lon, query_node.radius)
      [] query_node.op = "GeoInBox" ->
            query_in_box(tree, query_node.field, query_node.min_lat,
                query_node.min_lon, query_node.max_lat, query_node.max_lon)

Condition(field, operator, text) ==
    [field |-> field, operator |-> operator, value_str |-> text]

HashOperators == {"===", "includes"}
SortedOperators == {">", "<", ">=", "<=", "!="}

\* the keys of one condition of query_and: the equality lookup for "===" and
\* "includes", the sorted lookup for the ordered operators (its encoding of a
\* parsed value, a number, a string or a boolean, does not fail)
ConditionKeys(tree, c) ==
    IF c.operator \in HashOperators
    THEN fetch_keys_hash_index(tree, c.field, parse_value(c.value_str))
    ELSE fetch_keys_sorted_index(tree, c.field, c.operator,
                                 parse_value(c.value_str)).keys

\* the fold of the key sets: the intersection, the empty set for no condition
RECURSIVE CommonKeys(_, _)
CommonKeys(tree, conditions) ==
    IF conditions = <<>> THEN {}
    ELSE IF Len(conditions) = 1 THEN ConditionKeys(tree, conditions[1])
    ELSE ConditionKeys(tree, conditions[1]) \cap CommonKeys(tree, Tail(conditions))

\* query_and: an operator it does not know ends it with MissingData
query_and(tree, conditions) ==
    IF \E i \in 1..Len(conditions) :
          conditions[i].operator \notin HashOperators \cup SortedOperators
    THEN QErr("MissingData")
    ELSE fetch_documents(tree, CommonKeys(tree, conditions))

-----------------------------------------------------------------------------
(* Inputs *)

MaxOps == 2

KeyC == <<"c">>
KeyBC == <<"b", Colon, "c">>

\* primary keys: a plain one and one that holds a ':'
Keys == {KeyC, KeyBC}

PathF == <<"f">>
PathT == <<"t">>
PathN == <<"n">>
PathLoc == <<"loc">>

TextA == <<"a">>
TextAB == <<"a", Colon, "b">>

DocA == Obj([f |-> Str(TextA)])
DocAB == Obj([f |-> Str(TextAB)])
DocFull ==
    Obj([f |-> Num(5), n |-> Num(5),
         t |-> Arr(<<Str(<<"x">>), Str(<<"y">>)>>),
         loc |-> Obj([lat |-> Num(0), lon |-> Num(0)])])
\* a point no geohash exists for: writing it fails
DocBadGeo == Obj([f |-> Str(TextA), loc |-> Obj([lat |-> Num(100), lon |-> Num(0)])])

Docs == {DocA, DocAB, DocFull, DocBadGeo}

\* the one configuration the library calls are made under
LibConfig ==
    [hash_indexed_fields |-> {PathF, PathT},
     sorted_indexed_fields |-> {PathN},
     geo_indexed_fields |-> {PathLoc}]

\* the operations lists of batch_set and execute_transaction are made of
BatchItems == {SetOp(KeyBC, DocFull), SetOp(KeyC, DocA), SetOp(KeyC, DocBadGeo)}
TxOps == BatchItems \cup {DeleteOp(KeyBC)}

\* the items import_data is given: two well-formed, one without "value", one
\* without "key"
ImportItems ==
    {Obj([key |-> Str(KeyBC), value |-> DocA]),
     Obj([key |-> Str(KeyC), value |-> DocFull]),
     Obj([key |-> Str(KeyC)]),
     Obj([value |-> DocA])}

Prefixes == {<<>>, <<"b">>, <<"c">>, <<FIELD_INDEX_PREFIX>>}

SeqsUpTo(S, n) == UNION {[1..m -> S] : m \in 0..n}

-----------------------------------------------------------------------------
(* The calls of the library, made one after the other *)

Call(op, key, value, args) == [op |-> op, key |-> key, value |-> value, args |-> args]
Ret(r) == [ok |-> r.ok, err |-> r.err, key |-> r.key, out |-> r.out]
NoCall == Call("none", <<>>, Null, <<>>)
Untracked == Call("untracked", <<>>, Null, <<>>)

\* the history is kept where Init turns it on
History == IF prev.op = "untracked" THEN prev ELSE call

Serve(r, c) ==
    /\ db' = r.db
    /\ call' = c
    /\ ret' = Ret(r)
    /\ prev' = History
    /\ UNCHANGED <<db_config, reqs>>

SetKey(k, v) == Serve(set_key(db, k, v, db_config), Call("set_key", k, v, <<>>))

DeleteKey(k) == Serve(delete_key(db, k, db_config), Call("delete_key", k, Null, <<>>))

GetKey(k) == Serve(get_key(db, k), Call("get_key", k, Null, <<>>))

BatchSet(items) ==
    Serve(batch_set(db, items, db_config), Call("batch_set", <<>>, Null, items))

ExecuteTransaction(ops) ==
    Serve(execute_transaction(db, ops, db_config),
          Call("execute_transaction", <<>>, Null, ops))

ClearPrefix(p) ==
    Serve(clear_prefix(db, p, db_config), Call("clear_prefix", p, Null, <<>>))

DropDatabase ==
    Serve(drop_database(db, db_config), Call("drop_database", <<>>, Null, <<>>))

ImportData(items) ==
    Serve(import_data(db, items, db_config), Call("import_data", <<>>, Null, items))

EmptyDb == [k \in {} |-> EmptyBytes]

Init ==
    /\ db = EmptyDb
    /\ db_config = LibConfig
    /\ call = NoCall
    /\ ret = Ret(Done(EmptyDb, <<>>))
    /\ prev = Untracked
    /\ reqs = <<>>

Next ==
    \/ \E k \in Keys, v \in Docs : SetKey(k, v)
    \/ \E k \in Keys : DeleteKey(k)
    \/ \E k \in Keys : GetKey(k)
    \/ \E items \in SeqsUpTo(BatchItems, MaxOps) : BatchSet(items)
    \/ \E ops \in SeqsUpTo(TxOps, MaxOps) : ExecuteTransaction(ops)
    \/ \E p \in Prefixes : ClearPrefix(p)
    \/ DropDatabase
    \/ \E items \in SeqsUpTo(ImportItems, MaxOps) : ImportData(items)

Spec == Init /\ [][Next]_vars

-----------------------------------------------------------------------------
(* Properties of the library calls under one configuration (Spec) *)

\* the documents present and the index entries present
Documents(tree) == {k \in DOMAIN tree : tree[k].bytes = "json"}
IndexEntries(tree) ==
    {k \in DOMAIN tree : HasReservedPrefix(k) /\ tree[k].bytes = "empty"}

\* the entries re-derived from the documents present
Rederived(tree, config) ==
    UNION {index_value_recursive(k, <<>>, tree[k].value, config).keys
           : k \in Documents(tree)}

IndexConsistent(tree, config) == IndexEntries(tree) = Rederived(tree, config)

EndsWith(s, suffix) ==
    /\ Len(suffix) <= Len(s)
    /\ SubSeq(s, Len(s) - Len(suffix) + 1, Len(s)) = suffix

TransactionalOps == {"batch_set", "execute_transaction"}

WriteOps ==
    {"set_key", "batch_set", "execute_transaction", "delete_key",
     "import_data", "clear_prefix", "drop_database"}

\* C1: a set_key, batch_set, execute_transaction, delete_key, clear_prefix or
\* drop_database call made on a store whose index entries equal the entries
\* re-derived from the documents present leaves a store of which the same is
\* true.
C1_IndexEqualsRederivation ==
    [][(/\ call'.op \in WriteOps \ {"import_data"}
        /\ IndexConsistent(db, db_config))
       => IndexConsistent(db', db_config)]_vars

\* C2: after set_key(k, v) followed by delete_key(k) no index entry of the
\* store ends with the primary-key fragment ":k".
C2_NoEntryOfDeletedKey ==
    [][(/\ call.op = "set_key" /\ ret.ok
        /\ call'.op = "delete_key" /\ ret'.ok
        /\ call'.key = call.key)
       => \A x \in IndexEntries(db') : ~EndsWith(x, <<Colon>> \o call'.key)]_vars

\* the calls that write single keys and the calls that write lists
NextTx ==
    \/ \E k \in Keys, v \in Docs : SetKey(k, v)
    \/ \E k \in Keys : DeleteKey(k)
    \/ \E items \in SeqsUpTo(BatchItems, MaxOps) : BatchSet(items)
    \/ \E ops \in SeqsUpTo(TxOps, MaxOps) : ExecuteTransaction(ops)

SpecTx == Init /\ [][NextTx]_vars

\* the operation of a list that fails on the tree the ones before it left
FailsAt(tree, operations, i, config) ==
    /\ run_operations(tree, SubSeq(operations, 1, i - 1), config).ok
    /\ ~RunOperation(run_operations(tree, SubSeq(operations, 1, i - 1), config).tree,
                     operations[i], config).ok

\* C4: a batch_set or execute_transaction call of which an operation fails
\* returns the transaction-failed error naming the key of that operation
\* and leaves the store, documents and index entries, as it was before the
\* call.
C4_FailedBatchLeavesStore ==
    [][(call'.op \in TransactionalOps /\ ~ret'.ok)
       => /\ db' = db
          /\ ret'.err = "TransactionOperationFailed"
          /\ \E i \in 1..Len(call'.args) :
                /\ FailsAt(db, call'.args, i, db_config)
                /\ ret'.key = call'.args[i].key]_vars

\* a failed batch whose first operation, alone, would have changed the store
C4_FailedAfterEffect ==
    /\ call.op \in TransactionalOps
    /\ ~ret.ok
    /\ Len(call.args) >= 2
    /\ run_operations(db, <<call.args[1]>>, db_config).ok
    /\ run_operations(db, <<call.args[1]>>, db_config).tree /= db

\* C5: a write-path call that returns an error leaves the store as it was.
C5_ErrorLeavesStore ==
    [][(call'.op \in WriteOps /\ ~ret'.ok) => db' = db]_vars

-----------------------------------------------------------------------------
(* set_key, delete_key and get_key over all primary keys (SpecKV) *)

\* a primary key under a reserved prefix: nothing in the write path refuses it
KeyIdx == <<FIELD_INDEX_PREFIX, "f", Colon, "a", Colon, "c">>

KVKeys == Keys \cup {KeyIdx}

NextKV ==
    \/ \E k \in KVKeys, v \in Docs : SetKey(k, v)
    \/ \E k \in KVKeys : DeleteKey(k)
    \/ \E k \in KVKeys : GetKey(k)

SpecKV == Init /\ [][NextKV]_vars

\* what get_key returns on a store
Read(tree, k) == Ret(get_key(tree, k))

\* C6: set_key(k, v) makes get_key(k) return v, a call that writes or
\* deletes another key leaves what get_key(k) returns, and delete_key(k)
\* makes get_key(k) not-found with no store key k left.
C6_GetReturnsLastWrite ==
    [][/\ (call'.op = "set_key" /\ ret'.ok)
            => /\ Read(db', call'.key).ok
               /\ Read(db', call'.key).out = call'.value
               /\ \A k \in KVKeys \ {call'.key} :
                     Read(db, k).ok => Read(db', k) = Read(db, k)
       /\ (call'.op = "delete_key" /\ ret'.ok)
            => /\ Read(db', call'.key).err = "NotFound"
               /\ call'.key \notin DOMAIN db'
               /\ \A k \in KVKeys \ {call'.key} :
                     Read(db, k).ok => Read(db', k) = Read(db, k)]_vars

\* C20: in every store state no document is stored under a primary key that
\* begins with a reserved prefix.
C20_NoDocumentUnderReservedPrefix ==
    \A k \in Documents(db) : ~HasReservedPrefix(k)

-----------------------------------------------------------------------------
(* Queries of the library under one configuration (SpecQuery) *)

MaxConditions == 2

KeyA == <<"a">>
QueryKeys == {KeyA, KeyC, KeyBC}

TextX == <<"x">>
TextFive == <<"5">>

DocAX == Obj([f |-> Str(TextA), t |-> Arr(<<Str(TextX)>>)])
DocFive == Obj([f |-> Str(TextFive)])
DocNumFive == Obj([f |-> Num(5), t |-> Arr(<<Str(TextX)>>)])

QueryDocs == {DocA, DocAB, DocAX, DocFive, DocNumFive}

QueryNodes ==
    {Eq(PathF, Str(TextA)), Eq(PathF, Str(TextAB)), Eq(PathF, Str(TextFive)),
     Eq(PathF, Num(5)), Includes(PathT, Str(TextX))}

Conditions ==
    {Condition(PathF, "===", TextA), Condition(PathF, "===", TextFive),
     Condition(PathT, "includes", TextX)}

\* a read leaves the store as it is and returns its documents
ServeRead(r, c) ==
    /\ call' = c
    /\ ret' = [ok |-> r.ok, err |-> r.err, key |-> <<>>, out |-> r.docs]
    /\ prev' = History
    /\ UNCHANGED <<db, db_config, reqs>>

QueryAst(q) ==
    ServeRead(execute_ast_query(db, q, db_config), Call("query_ast", <<>>, Null, q))

QueryAnd(conditions) ==
    ServeRead(query_and(db, conditions), Call("query_and", <<>>, Null, conditions))

NextQuery ==
    \/ \E k \in QueryKeys, v \in QueryDocs : SetKey(k, v)
    \/ \E k \in QueryKeys : DeleteKey(k)
    \/ \E q \in QueryNodes : QueryAst(q)
    \/ \E conditions \in SeqsUpTo(Conditions, MaxConditions) : QueryAnd(conditions)

SpecQuery == Init /\ [][NextQuery]_vars

\* the document holds the scalar s at the path
HasValueAt(doc, path, s) ==
    /\ get_value_by_path(doc, path).some
    /\ ValueEq(get_value_by_path(doc, path).value, s)

\* the document holds at the path the scalar s or an array with the element s
HasOrContainsAt(doc, path, s) ==
    /\ get_value_by_path(doc, path).some
    /\ \/ ValueEq(get_value_by_path(doc, path).value, s)
       \/ /\ is_array(get_value_by_path(doc, path).value)
          /\ \E i \in 1..Len(get_value_by_path(doc, path).value.v) :
                ValueEq(get_value_by_path(doc, path).value.v[i], s)

\* the documents a result holds
ResultDocuments(r) == {r.out[x] : x \in DOMAIN r.out}

\* C7: execute_ast_query(Eq(P, s)) on a hash-indexed path P succeeds and its
\* result contains every stored document that has the value s at P, whatever
\* its primary key.
C7_EqReturnsDocument ==
    [][(/\ call'.op = "query_ast"
        /\ call'.args.op = "Eq"
        /\ call'.args.field \in db_config.hash_indexed_fields)
       => \A k \in Documents(db) :
             HasValueAt(db[k].value, call'.args.field, call'.args.value)
                => /\ ret'.ok
                   /\ db[k].value \in ResultDocuments(ret')]_vars

\* C9: every document execute_ast_query(Eq(P, s)) returns has at P the scalar
\* s, same type and value, or an array containing s.
C9_EqReturnsOnlyEqual ==
    [][(/\ call'.op = "query_ast"
        /\ call'.args.op = "Eq"
        /\ ret'.ok)
       => \A d \in ResultDocuments(ret') :
             HasOrContainsAt(d, call'.args.field, call'.args.value)]_vars

\* the primary keys of the documents that satisfy every condition
Satisfying(tree, conditions) ==
    {k \in Documents(tree) :
        \A i \in 1..Len(conditions) :
            HasValueAt(tree[k].value, conditions[i].field,
                       parse_value(conditions[i].value_str))}

\* C10: query_and over "===" conditions on hash-indexed fields returns
\* exactly the documents, one per primary key, whose values at the fields
\* equal the parsed values of the texts.
C10_QueryAndExact ==
    [][(/\ call'.op = "query_and"
        /\ Len(call'.args) >= 1
        /\ \A i \in 1..Len(call'.args) : call'.args[i].operator = "===")
       => /\ ret'.ok
          /\ DOMAIN ret'.out = Satisfying(db, call'.args)
          /\ \A k \in DOMAIN ret'.out : ret'.out[k] = db[k].value]_vars

\* the document holds at the path an array with the element x
ContainsAt(doc, path, x) ==
    /\ get_value_by_path(doc, path).some
    /\ is_array(get_value_by_path(doc, path).value)
    /\ \E i \in 1..Len(get_value_by_path(doc, path).value.v) :
          ValueEq(get_value_by_path(doc, path).value.v[i], x)

\* C13: execute_ast_query(Includes(P, x)) on a hash-indexed array path P
\* succeeds and returns exactly the present documents, one per primary key,
\* whose array at P has the element x (so a document whose array was replaced
\* is returned for the elements of the new array only).
C13_IncludesExact ==
    [][(/\ call'.op = "query_ast"
        /\ call'.args.op = "Includes"
        /\ call'.args.field \in db_config.hash_indexed_fields)
       => /\ ret'.ok
          /\ DOMAIN ret'.out
                = {k \in Documents(db) :
                    ContainsAt(db[k].value, call'.args.field, call'.args.value)}
          /\ \A k \in DOMAIN ret'.out : ret'.out[k] = db[k].value]_vars

-----------------------------------------------------------------------------
(* The request handlers of the server.  They share one configuration,      *)
(* which starts empty; a request that has copied the configuration and has *)
(* not yet run its library call is in flight in reqs.                      *)

MaxInFlight == 2

\* Option::or_else
OrElse(a, b) == IF a.some THEN a ELSE b

\* extract_eq_field: the field of the first Eq leaf, if any
RECURSIVE extract_eq_field(_)
extract_eq_field(query_node) ==
    CASE query_node.op = "Eq" -> Some(query_node.field)
      [] query_node.op \in {"And", "Or"} ->
            OrElse(extract_eq_field(query_node.left),
                   extract_eq_field(query_node.right))
      [] query_node.op = "Not" -> extract_eq_field(query_node.node)
      [] OTHER -> None

\* the path and every dotted prefix of it
PathPrefixes(parts) == {Join(SubSeq(parts, 1, i), Dot) : i \in 1..Len(parts)}

\* an add_field_to_index that keeps only the paths of the last field
add_field_to_index_replacing(config, field_path) ==
    [config EXCEPT !.hash_indexed_fields = PathPrefixes(Split(field_path, Dot))]

\* add_field_to_index: hash_indexed_fields gains the path and its prefixes
add_field_to_index(config, field_path) ==
    [config EXCEPT !.hash_indexed_fields = @ \cup PathPrefixes(Split(field_path, Dot))]

\* LogicDbConfig::default()
DefaultConfig ==
    [hash_indexed_fields |-> {}, sorted_indexed_fields |-> {},
     geo_indexed_fields |-> {}]

PathMF == <<"m", Dot, "f">>
DocNested == Obj([m |-> Obj([f |-> Str(TextA)])])

ServerKeys == {KeyA, KeyC}
ServerDocs == {DocA, DocAX, DocNested}
ServerQueries == {Eq(PathF, Str(TextA)), Eq(PathMF, Str(TextA))}

DeleteRequest(key, config) ==
    [handler |-> "delete", key |-> key, ast |-> Null, config |-> config]
QueryRequest(ast, config) ==
    [handler |-> "query_ast", key |-> <<>>, ast |-> ast, config |-> config]

\* the requests in flight without the i-th
Without(q, i) == SubSeq(q, 1, i - 1) \o SubSeq(q, i + 1, Len(q))

\* set_handler: set_key under the configuration lock
SetHandler(k, v) ==
    /\ db' = set_key(db, k, v, db_config).db
    /\ call' = Call("set", k, v, <<>>)
    /\ ret' = Ret(set_key(db, k, v, db_config))
    /\ prev' = History
    /\ UNCHANGED <<db_config, reqs>>

\* delete_handler, first step: copy the configuration and release the lock
DeleteHandlerClone(k) ==
    /\ Len(reqs) < MaxInFlight
    /\ reqs' = Append(reqs, DeleteRequest(k, db_config))
    /\ UNCHANGED <<db, db_config, call, ret, prev>>

\* delete_handler, second step: delete_key with the copy
DeleteHandlerRun(i) ==
    /\ reqs[i].handler = "delete"
    /\ db' = delete_key(db, reqs[i].key, reqs[i].config).db
    /\ call' = Call("delete", reqs[i].key, Null, <<>>)
    /\ ret' = Ret(delete_key(db, reqs[i].key, reqs[i].config))
    /\ prev' = History
    /\ reqs' = Without(reqs, i)
    /\ UNCHANGED db_config

\* the configuration after the locked block of query_ast_handler
IndexedFor(config, field_option) ==
    IF field_option.some THEN add_field_to_index(config, field_option.value)
    ELSE config

\* query_ast_handler, first step: record the field of the query under the
\* lock and copy the configuration
QueryAstHandlerClone(q) ==
    /\ Len(reqs) < MaxInFlight
    /\ db_config' = IndexedFor(db_config, extract_eq_field(q))
    /\ reqs' = Append(reqs, QueryRequest(q, db_config'))
    /\ UNCHANGED <<db, call, ret, prev>>

\* a handler that also indexes the documents present for the paths of its
\* copy of the configuration
QueryAstHandlerRunIndexing(i) ==
    /\ reqs[i].handler = "query_ast"
    /\ call' = Call("query_ast", <<>>, Null, reqs[i].ast)
    /\ ret' = [ok |-> execute_ast_query(db, reqs[i].ast, reqs[i].config).ok,
               err |-> execute_ast_query(db, reqs[i].ast, reqs[i].config).err,
               key |-> <<>>,
               out |-> execute_ast_query(db, reqs[i].ast, reqs[i].config).docs]
    /\ prev' = History
    /\ reqs' = Without(reqs, i)
    /\ db' = tree_insert_all(db, Rederived(db, reqs[i].config))
    /\ UNCHANGED db_config

\* query_ast_handler, second step: execute_ast_query with the copy
QueryAstHandlerRun(i) ==
    /\ reqs[i].handler = "query_ast"
    /\ call' = Call("query_ast", <<>>, Null, reqs[i].ast)
    /\ ret' = [ok |-> execute_ast_query(db, reqs[i].ast, reqs[i].config).ok,
               err |-> execute_ast_query(db, reqs[i].ast, reqs[i].config).err,
               key |-> <<>>,
               out |-> execute_ast_query(db, reqs[i].ast, reqs[i].config).docs]
    /\ prev' = History
    /\ reqs' = Without(reqs, i)
    /\ UNCHANGED <<db, db_config>>

InitServer ==
    /\ db = EmptyDb
    /\ db_config = DefaultConfig
    /\ call = NoCall
    /\ ret = Ret(Done(EmptyDb, <<>>))
    /\ prev = Untracked
    /\ reqs = <<>>

\* set and query_ast requests
NextDynamic ==
    \/ \E k \in ServerKeys, v \in ServerDocs : SetHandler(k, v)
    \/ \E q \in ServerQueries : QueryAstHandlerClone(q)
    \/ \E i \in 1..Len(reqs) : QueryAstHandlerRun(i)

SpecDynamic == InitServer /\ [][NextDynamic]_vars

\* set, delete and query_ast requests
NextServer ==
    \/ \E k \in ServerKeys, v \in ServerDocs : SetHandler(k, v)
    \/ \E k \in ServerKeys : DeleteHandlerClone(k)
    \/ \E i \in 1..Len(reqs) : DeleteHandlerRun(i)
    \/ \E q \in ServerQueries : QueryAstHandlerClone(q)
    \/ \E i \in 1..Len(reqs) : QueryAstHandlerRun(i)

SpecServer == InitServer /\ [][NextServer]_vars

\* C3: in every store state the handlers commit, each index entry is
\* derivable, under the shared configuration, from a document that is
\* present.
C3_NoOrphanEntry ==
    \A x \in IndexEntries(db) :
        \E k \in Documents(db) :
            x \in index_value_recursive(k, <<>>, db[k].value, db_config).keys

\* C8: once P is in hash_indexed_fields, query_ast(Eq(P, s)) returns every
\* present document whose value at P is s, whether it was written before or
\* after P became indexed.
C8_FallbackReturnsAll ==
    [][(/\ call'.op = "query_ast"
        /\ call'.args.op = "Eq"
        /\ call'.args.field \in db_config.hash_indexed_fields)
       => /\ ret'.ok
          /\ \A k \in Documents(db) :
                HasValueAt(db[k].value, call'.args.field, call'.args.value)
                    => /\ k \in DOMAIN ret'.out
                       /\ ret'.out[k] = db[k].value]_vars

-----------------------------------------------------------------------------
(* Ordered queries of the library over a sorted-indexed numeric path       *)
(* (SpecSorted)                                                            *)

Bounds == {-1, 1, 2, 3}

DocNeg == Obj([n |-> Num(-1)])
DocOne == Obj([n |-> Num(1)])
DocTwo == Obj([n |-> Num(2)])

SortedDocs == {DocNeg, DocOne, DocTwo}

\* And(Gte(P, a), Lt(P, b)) for the bounds a < b
RangeNodes ==
    {And(Gte(PathN, Num(a)), Lt(PathN, Num(b))) :
        a \in {x \in Bounds : x < 3}, b \in {y \in Bounds : y > 1}}

SortedConditions ==
    {Condition(PathN, ">=", IntText(-1)), Condition(PathN, ">=", IntText(2)),
     Condition(PathN, "<", IntText(3)), Condition(PathN, "<", IntText(2))}

NextSorted ==
    \/ \E k \in QueryKeys, v \in SortedDocs : SetKey(k, v)
    \/ \E k \in QueryKeys : DeleteKey(k)
    \/ \E q \in RangeNodes : QueryAst(q)
    \/ \E conditions \in SeqsUpTo(SortedConditions, MaxConditions) :
            QueryAnd(conditions)

SpecSorted == Init /\ [][NextSorted]_vars

\* the document holds at the path a number x with a <= x < b
InRange(doc, path, a, b) ==
    /\ get_value_by_path(doc, path).some
    /\ get_value_by_path(doc, path).value.t = "num"
    /\ a <= get_value_by_path(doc, path).value.v
    /\ get_value_by_path(doc, path).value.v < b

IsRangeNode(q) ==
    /\ q.op = "And"
    /\ q.left.op = "Gte"
    /\ q.right.op = "Lt"
    /\ q.left.field = q.right.field
    /\ q.left.value.t = "num"
    /\ q.right.value.t = "num"
    /\ q.left.value.v < q.right.value.v

\* C11: execute_ast_query(And(Gte(P, a), Lt(P, b))) on a sorted-indexed
\* numeric path P with a < b succeeds and returns exactly the present
\* documents whose number at P lies in [a, b), negative numbers included.
C11_RangeReturnsInterval ==
    [][(/\ call'.op = "query_ast"
        /\ IsRangeNode(call'.args)
        /\ call'.args.left.field \in db_config.sorted_indexed_fields)
       => /\ ret'.ok
          /\ ResultDocuments(ret')
                = {db[k].value :
                    k \in {x \in Documents(db) :
                            InRange(db[x].value, call'.args.left.field,
                                    call'.args.left.value.v,
                                    call'.args.right.value.v)}}]_vars

\* the number x stands in the relation of the operator to the number y
Ordered(x, operator, y) ==
    CASE operator = ">" -> x > y
      [] operator = ">=" -> x >= y
      [] operator = "<" -> x < y
      [] operator = "<=" -> x <= y
      [] OTHER -> FALSE

\* the primary keys of the documents whose number at the field of every
\* condition satisfies the condition
SatisfyingOrdered(tree, conditions) ==
    {k \in Documents(tree) :
        \A i \in 1..Len(conditions) :
            /\ get_value_by_path(tree[k].value, conditions[i].field).some
            /\ get_value_by_path(tree[k].value, conditions[i].field).value.t = "num"
            /\ Ordered(get_value_by_path(tree[k].value, conditions[i].field).value.v,
                       conditions[i].operator,
                       parse_value(conditions[i].value_str).v)}

\* C12: query_and over ordered-operator conditions with numeric texts on a
\* sorted-indexed field returns exactly the documents, one per primary key,
\* whose number at the field satisfies every condition.
C12_QueryAndOrdered ==
    [][(/\ call'.op = "query_and"
        /\ Len(call'.args) >= 1
        /\ \A i \in 1..Len(call'.args) :
              /\ call'.args[i].operator \in {">", ">=", "<", "<="}
              /\ call'.args[i].field \in db_config.sorted_indexed_fields)
       => /\ ret'.ok
          /\ DOMAIN ret'.out = SatisfyingOrdered(db, call'.args)
          /\ \A k \in DOMAIN ret'.out : ret'.out[k] = db[k].value]_vars

-----------------------------------------------------------------------------
(* Geospatial queries of the library over a geo-indexed path (SpecGeo)     *)

DocAt(lat, lon) == Obj([loc |-> Obj([lat |-> Num(lat), lon |-> Num(lon)])])

\* a point at the centre of the queries, one in a cell next to it, one
\* three cells away
GeoDocs == {DocAt(0, 0), DocAt(0, 1), DocAt(0, 3)}

RadiusQueries == {GeoWithinRadius(PathLoc, 0, 0, r) : r \in {0, 1, 3}}

BoxQueries ==
    {GeoInBox(PathLoc, -1, -1, 1, 2), GeoInBox(PathLoc, -1, 2, 1, 4),
     GeoInBox(PathLoc, 5, 5, 6, 6)}

NextGeo ==
    \/ \E k \in QueryKeys, v \in GeoDocs : SetKey(k, v)
    \/ \E k \in QueryKeys : DeleteKey(k)
    \/ \E q \in RadiusQueries : QueryAst(q)
    \/ \E q \in BoxQueries : QueryAst(q)

SpecGeo == Init /\ [][NextGeo]_vars

\* the document holds a point at the path
HasPointAt(doc, path) ==
    /\ get_value_by_path(doc, path).some
    /\ from_value_GeoPoint(get_value_by_path(doc, path).value).ok

ThePointAt(doc, path) == from_value_GeoPoint(get_value_by_path(doc, path).value)

\* C14: a radius query on a geo-indexed path P succeeds and returns exactly
\* the present documents, one per primary key, whose point at P lies within
\* the radius of the centre, whatever the cell of the point.
C14_RadiusExact ==
    [][(/\ call'.op = "query_ast"
        /\ call'.args.op = "GeoWithinRadius"
        /\ call'.args.field \in db_config.geo_indexed_fields)
       => /\ ret'.ok
          /\ DOMAIN ret'.out
                = {k \in Documents(db) :
                    /\ HasPointAt(db[k].value, call'.args.field)
                    /\ haversine_distance(
                          ThePointAt(db[k].value, call'.args.field),
                          [lat |-> call'.args.lat, lon |-> call'.args.lon])
                            <= call'.args.radius}
          /\ \A k \in DOMAIN ret'.out : ret'.out[k] = db[k].value]_vars

\* the document at k has a geospatial index entry for the path
HasGeoEntry(tree, k, path) ==
    \E x \in IndexEntries(tree) :
        /\ StartsWith(x, get_geo_sorted_index_prefix_for_field(path))
        /\ EndsWith(x, <<Colon>> \o k)
        /\ x \in index_value_recursive(k, <<>>, tree[k].value, db_config).keys

\* C15: a box query on a geo-indexed path P succeeds and returns exactly the
\* present documents, each once, that have a geospatial index entry for P
\* and whose point at P lies within the rectangle.
C15_BoxExact ==
    [][(/\ call'.op = "query_ast"
        /\ call'.args.op = "GeoInBox"
        /\ call'.args.field \in db_config.geo_indexed_fields)
       => /\ ret'.ok
          /\ DOMAIN ret'.out
                = {k \in Documents(db) :
                    /\ HasGeoEntry(db, k, call'.args.field)
                    /\ HasPointAt(db[k].value, call'.args.field)
                    /\ RectContains(call'.args.min_lat, call'.args.min_lon,
                          call'.args.max_lat, call'.args.max_lon,
                          ThePointAt(db[k].value, call'.args.field))}
          /\ \A k \in DOMAIN ret'.out : ret'.out[k] = db[k].value]_vars

-----------------------------------------------------------------------------
(* Queries next to writers (SpecHydrate).  A query holds no lock on the    *)
(* store and runs in no transaction: it scans an index for candidate keys  *)
(* and then reads the document of each with get_key, and a writer may      *)
(* commit between the two.  Primary keys here hold no ':'.                 *)

\* what the first half of a leaf leaves for the second: the candidate keys
\* and the operator of the filter applied to the documents, if any
Candidates(ast, keys, filter) ==
    [handler |-> "hydrate", ast |-> ast, keys |-> keys, filter |-> filter]

\* the Eq leaf up to the hydration: the keys of the index, or every key of
\* the store for the full scan
EqCandidates(tree, q, keys, config) ==
    IF keys = {} /\ q.field \in config.hash_indexed_fields
    THEN Candidates(q, get_all_keys(tree), "Eq")
    ELSE Candidates(q, keys, "none")

ScanLeaf(tree, q, config) ==
    IF q.op = "Eq"
    THEN EqCandidates(tree, q, fetch_keys_hash_index(tree, q.field, q.value), config)
    ELSE Candidates(q, fetch_keys_hash_index(tree, q.field, q.value), "Includes")

\* the hydration of the candidates and the filter of the leaf
HydrateLeaf(tree, req) ==
    IF req.filter = "none" THEN fetch_documents(tree, req.keys)
    ELSE FilterDocuments(fetch_documents(tree, req.keys), req.ast.field,
                         req.filter, req.ast.value)

HydrateKeys == {KeyA, KeyC}
HydrateDocs == {DocA, DocAX}
HydrateNodes == {Eq(PathF, Str(TextA)), Includes(PathT, Str(TextX))}
HydrateConditions == {Condition(PathF, "===", TextA)}

\* execute_ast_query of a leaf, first half
QueryScan(q) ==
    /\ Len(reqs) < MaxInFlight
    /\ reqs' = Append(reqs, ScanLeaf(db, q, db_config))
    /\ UNCHANGED <<db, db_config, call, ret, prev>>

\* query_and, first half: the common keys of the conditions
QueryAndScan(conditions) ==
    /\ Len(reqs) < MaxInFlight
    /\ reqs' = Append(reqs, Candidates(conditions, CommonKeys(db, conditions), "none"))
    /\ UNCHANGED <<db, db_config, call, ret, prev>>

\* second half of either: get_key of every candidate on the store as it is now
QueryHydrate(i) ==
    /\ reqs[i].handler = "hydrate"
    /\ call' = Call("hydrate", <<>>, Null, reqs[i])
    /\ ret' = [ok |-> HydrateLeaf(db, reqs[i]).ok,
               err |-> HydrateLeaf(db, reqs[i]).err,
               key |-> <<>>,
               out |-> HydrateLeaf(db, reqs[i]).docs]
    /\ prev' = History
    /\ reqs' = Without(reqs, i)
    /\ UNCHANGED <<db, db_config>>

NextHydrate ==
    \/ \E k \in HydrateKeys, v \in HydrateDocs : SetKey(k, v)
    \/ \E k \in HydrateKeys : DeleteKey(k)
    \/ \E q \in HydrateNodes : QueryScan(q)
    \/ \E conditions \in SeqsUpTo(HydrateConditions, 1) \ {<<>>} :
            QueryAndScan(conditions)
    \/ \E i \in 1..Len(reqs) : QueryHydrate(i)

SpecHydrate == Init /\ [][NextHydrate]_vars

\* C16: a query whose candidate keys came from an index scan does not fail
\* when a candidate has no document at the time it is hydrated: it succeeds,
\* and without a filter it returns the documents of the candidates that
\* have one.
C16_MissingCandidateSkipped ==
    [][(call'.op = "hydrate")
       => /\ ret'.ok
          /\ (call'.args.filter = "none")
                => DOMAIN ret'.out = call'.args.keys \cap Documents(db)]_vars

-----------------------------------------------------------------------------
(* Concurrent writers (SpecWriters, SpecRetry).  set_key hands its body to *)
(* db.transaction, which runs it on the committed state and commits it     *)
(* atomically; a transaction that met a conflict, another one having       *)
(* committed since its body started, has its body run again.  Nothing in   *)
(* set_key or around it counts the runs.                                   *)

CAS_RETRY_LIMIT == 10

\* a set_key call in flight: the runs its body has had beyond the first, and
\* whether another transaction has committed since the last one started
WriteTx(key, value) ==
    [handler |-> "set_key", key |-> key, value |-> value, attempts |-> 0,
     stale |-> FALSE]

\* every other transaction in flight now conflicts
Conflicting(q) == [j \in 1..Len(q) |-> [q[j] EXCEPT !.stale = TRUE]]

\* the transactions left in flight by one that ended: a commit makes them
\* conflict, an abort has written nothing
AfterEnd(q, r) == IF r.ok THEN Conflicting(q) ELSE q

\* set_key is called: the body starts on the committed state
TxBegin(k, v) ==
    /\ Len(reqs) < MaxInFlight
    /\ reqs' = Append(reqs, WriteTx(k, v))
    /\ UNCHANGED <<db, db_config, call, ret, prev>>

\* the body has run on the state that is still the committed one: the
\* transaction commits, or aborts with the error of the body
TxCommit(i) ==
    /\ reqs[i].handler = "set_key"
    /\ ~reqs[i].stale
    /\ db' = set_key(db, reqs[i].key, reqs[i].value, db_config).db
    /\ call' = Call("commit", reqs[i].key, reqs[i].value, <<>>)
    /\ ret' = Ret(set_key(db, reqs[i].key, reqs[i].value, db_config))
    /\ prev' = History
    /\ reqs' = AfterEnd(Without(reqs, i),
                        set_key(db, reqs[i].key, reqs[i].value, db_config))
    /\ UNCHANGED db_config

\* the transaction conflicted: db.transaction runs the body again.  The runs
\* are counted up to shown, for the properties; the code keeps no count.
TxRetry(i, shown) ==
    /\ reqs[i].handler = "set_key"
    /\ reqs[i].stale
    /\ reqs' = [reqs EXCEPT ![i].stale = FALSE,
                            ![i].attempts = IF @ < shown THEN @ + 1 ELSE @]
    /\ UNCHANGED <<db, db_config, call, ret, prev>>

WriterDocs == {DocA, DocAB}

NextWriters ==
    \/ \E k \in Keys, v \in WriterDocs : TxBegin(k, v)
    \/ \E i \in 1..Len(reqs) : TxCommit(i)
    \/ \E i \in 1..Len(reqs) : TxRetry(i, 0)
    \/ \E k \in Keys : GetKey(k)

SpecWriters == Init /\ [][NextWriters]_vars

\* C17: when a set_key of concurrent writers commits, get_key of its key
\* returns its value (the value of the transaction that committed last), the
\* documents of the other keys stay as they were, and the index entries of
\* the store are those of the documents present and no others: those of the
\* value committed last for its key, and those of every other document.
C17_WritersCommitWithoutLoss ==
    [][(call'.op = "commit" /\ ret'.ok /\ IndexConsistent(db, db_config))
       => /\ Read(db', call'.key).ok
          /\ Read(db', call'.key).out = call'.value
          /\ \A k \in Documents(db) \ {call'.key} :
                k \in Documents(db') /\ db'[k] = db[k]
          /\ IndexConsistent(db', db_config)]_vars

NextRetry ==
    \/ \E k \in HydrateKeys : TxBegin(k, DocA)
    \/ \E i \in 1..Len(reqs) : TxCommit(i)
    \/ \E i \in 1..Len(reqs) : TxRetry(i, CAS_RETRY_LIMIT + 1)

SpecRetry == Init /\ [][NextRetry]_vars

\* C18: no write transaction has its body run again more than
\* CAS_RETRY_LIMIT times: at the limit it ends with the retry-limit error.
C18_RetriesBounded ==
    \A i \in 1..Len(reqs) :
        reqs[i].handler = "set_key" => reqs[i].attempts <= CAS_RETRY_LIMIT

-----------------------------------------------------------------------------
(* Export and import (SpecExport) *)

\* db.iter(): the keys in the byte order of the engine
Least(keys) ==
    CHOOSE k \in keys :
        \A x \in keys : CompareBytes(as_bytes(k), as_bytes(x)) /= "Greater"

RECURSIVE KeysInOrder(_)
KeysInOrder(keys) ==
    IF keys = {} THEN <<>>
    ELSE <<Least(keys)>> \o KeysInOrder(keys \ {Least(keys)})

\* json!({ "key": key_str, "value": value_json }) for each key
ExportItems(tree, ordered) ==
    [i \in 1..Len(ordered) |->
        Obj([key |-> Str(ordered[i]), value |-> tree[ordered[i]].value])]

\* export_data: the documents outside the reserved prefixes, as the array
\* serde_json::to_string writes and import_data parses back (a value of
\* integers, strings, arrays and objects is read back as it was written)
export_data(tree) ==
    IF \E k \in get_all_keys(tree) : ~from_slice(tree_get(tree, k)).ok
    THEN Failed(tree, "Serde", <<>>)
    ELSE Done(tree, ExportItems(tree, KeysInOrder(get_all_keys(tree))))

ExportData == Serve(export_data(db), Call("export_data", <<>>, Null, <<>>))

ExportDocs == {DocA, DocAB, DocFull}

NextExport ==
    \/ \E k \in QueryKeys, v \in ExportDocs : SetKey(k, v)
    \/ \E k \in QueryKeys : DeleteKey(k)
    \/ ExportData

SpecExport == Init /\ [][NextExport]_vars

\* the store import_data makes of a text on an empty store
Imported(json_data, config) == import_data(EmptyDb, json_data, config)

\* C19: importing what export_data returned, on an empty store under the
\* same configuration, succeeds and yields the documents of the exported
\* store, with the same values, and the same set of index entries.
C19_ImportOfExportEquivalent ==
    (call.op = "export_data" /\ ret.ok)
        => /\ Imported(ret.out, db_config).ok
           /\ Documents(Imported(ret.out, db_config).db) = Documents(db)
           /\ \A k \in Documents(db) :
                 Imported(ret.out, db_config).db[k] = db[k]
           /\ IndexEntries(Imported(ret.out, db_config).db) = IndexEntries(db)

-----------------------------------------------------------------------------
(* The index entries of a document under a configuration that names a path *)
(* for the equality index and for the sorted index (SpecIndex).  Primary   *)
(* keys and values here hold no ':'.                                       *)

TextY == <<"y">>

IndexConfig ==
    [hash_indexed_fields |-> {PathF, PathT},
     sorted_indexed_fields |-> {PathF, PathT},
     geo_indexed_fields |-> {PathLoc}]

\* the primitives the documents of this specification are made of
IndexScalars == {Null, Bool(TRUE), Num(1), Str(TextA), Str(TextX), Str(TextY)}

IndexDocs ==
    {Obj([f |-> Str(TextA)]), Obj([f |-> Num(1)]), Obj([f |-> Null]),
     Obj([t |-> Arr(<<Str(TextX), Str(TextX)>>)]),
     Obj([f |-> Bool(TRUE), t |-> Arr(<<Str(TextX), Str(TextY)>>)])}

InitIndex ==
    /\ db = EmptyDb
    /\ db_config = IndexConfig
    /\ call = NoCall
    /\ ret = Ret(Done(EmptyDb, <<>>))
    /\ prev = Untracked
    /\ reqs = <<>>

NextIndex ==
    \/ \E k \in HydrateKeys, v \in IndexDocs : SetKey(k, v)
    \/ \E k \in HydrateKeys : DeleteKey(k)
    \/ \E k \in HydrateKeys : GetKey(k)

SpecIndex == InitIndex /\ [][NextIndex]_vars

IsScalar(x) == x.t \in {"null", "bool", "num", "unum", "str"}

\* the equality entries and the sorted entries present for (path, k) that
\* carry the primitive s
EqualityEntries(tree, path, s, k) ==
    IndexEntries(tree) \cap {get_field_index_key(path, value_str(s), k)}

SortedEntries(tree, path, s, k) ==
    IndexEntries(tree)
        \cap SortedKeyOf(encode_sorted_value(s), path, k)

\* every entry of either index present for (path, k)
EntriesFor(tree, path, k) ==
    UNION {EqualityEntries(tree, path, s, k) \cup SortedEntries(tree, path, s, k)
           : s \in IndexScalars}

\* one equality entry and one sorted entry carry s for (path, k)
OneEntryEach(tree, path, s, k) ==
    /\ Cardinality(EqualityEntries(tree, path, s, k)) = 1
    /\ Cardinality(SortedEntries(tree, path, s, k)) = 1

PrimitiveElements(a) == {a[i] : i \in {j \in 1..Len(a) : IsScalar(a[j])}}

\* what I1 asks of the value found at the path
EntriesAsRuled(tree, path, found, k) ==
    IF IsScalar(found)
    THEN /\ OneEntryEach(tree, path, found, k)
         /\ Cardinality(EntriesFor(tree, path, k)) = 2
    ELSE IF is_array(found)
    THEN /\ \A e \in PrimitiveElements(found.v) : OneEntryEach(tree, path, e, k)
         /\ Cardinality(EntriesFor(tree, path, k))
                = 2 * Cardinality(PrimitiveElements(found.v))
    ELSE TRUE

\* C21: for every present document and every path configured for the
\* equality index and for the sorted index, a scalar at the path (null
\* included) has exactly one equality entry and exactly one sorted entry for
\* (path, primary key), and an array at the path has exactly one of each per
\* distinct primitive element.
C21_OneEntryPerScalar ==
    \A k \in Documents(db) :
        \A path \in db_config.hash_indexed_fields
                        \cap db_config.sorted_indexed_fields :
            get_value_by_path(db[k].value, path).some
                => EntriesAsRuled(db, path,
                        get_value_by_path(db[k].value, path).value, k)

-----------------------------------------------------------------------------
(* The geospatial entries of a document (SpecGeoIndex).  One configured    *)
(* geo path is a field of the document, the other is an element of an      *)
(* array; one primary key is an ordinary one, the other has the shape of   *)
(* the geospatial entry of the first.                                      *)

PathT0 == <<"t", Dot, "0">>

GeoIndexConfig ==
    [hash_indexed_fields |-> {},
     sorted_indexed_fields |-> {},
     geo_indexed_fields |-> {PathLoc, PathT0}]

\* the cells the points of this specification lie in
GeoCells == {geohash_encode(0, lon).hash : lon \in 0..1}

KeyGeo == get_geo_sorted_index_key(PathLoc, geohash_encode(0, 0).hash, KeyC)

GeoIndexKeys == {KeyC, KeyGeo}

\* a point as a field, the same field moved to the next cell, a point given
\* as [lat, lon], a point as the first element of an array, no point
GeoIndexDocs ==
    {DocAt(0, 0), DocAt(0, 1),
     Obj([loc |-> Arr(<<Num(0), Num(1)>>)]),
     Obj([t |-> Arr(<<Obj([lat |-> Num(0), lon |-> Num(0)])>>)]),
     DocA}

InitGeoIndex ==
    /\ db = EmptyDb
    /\ db_config = GeoIndexConfig
    /\ call = NoCall
    /\ ret = Ret(Done(EmptyDb, <<>>))
    /\ prev = Untracked
    /\ reqs = <<>>

NextGeoIndex ==
    \/ \E k \in GeoIndexKeys, v \in GeoIndexDocs : SetKey(k, v)
    \/ \E k \in GeoIndexKeys : DeleteKey(k)

SpecGeoIndex == InitGeoIndex /\ [][NextGeoIndex]_vars

\* the keys of the store that are a geospatial entry for (path, k)
GeoEntriesFor(tree, path, k) ==
    {e \in DOMAIN tree :
        \E h \in GeoCells : e = get_geo_sorted_index_key(path, h, k)}

\* the geospatial entry of (path, k) under the cell of the point
EntryOfPoint(path, point, k) ==
    get_geo_sorted_index_key(path, geohash_encode(point.lat, point.lon).hash, k)

\* C22: for every present document k and every configured geo path whose
\* value in the document parses as a GeoPoint, the store holds exactly one
\* geospatial entry for (path, k), the one under the geohash of the point the
\* document holds now (so none under the cell of an earlier point).
C22_OneGeoEntry ==
    \A k \in Documents(db) :
        \A path \in db_config.geo_indexed_fields :
            HasPointAt(db[k].value, path)
                => GeoEntriesFor(db, path, k)
                    = {EntryOfPoint(path, ThePointAt(db[k].value, path), k)}

\* the walk of the value calls encode_sorted_value at a sorted-indexed path
\* on a value the codec rejects: the primitive at the path, or an element of
\* the array at the path
RejectedBy(found) ==
    \/ IsScalar(found) /\ ~encode_sorted_value(found).ok
    \/ is_array(found)
        /\ \E i \in 1..Len(found.v) : ~encode_sorted_value(found.v[i]).ok

HasRejectedValue(value, config) ==
    \E path \in config.sorted_indexed_fields :
        /\ get_value_by_path(value, path).some
        /\ RejectedBy(get_value_by_path(value, path).value)

\* C23: a set_key whose value holds, at a sorted-indexed path, a value that
\* encode_sorted_value rejects (null) returns an error and leaves the store
\* as it was: neither the document nor an index entry is written.
C23_EncodingErrorAborts ==
    [][(/\ call'.op = "set_key"
        /\ HasRejectedValue(call'.value, db_config))
       => /\ ~ret'.ok
          /\ db' = db]_vars

-----------------------------------------------------------------------------
(* clear_prefix and drop_database with no writer next to them (Spec) *)

\* the index entries of the document at k that the store holds
DocEntries(tree, k, config) ==
    index_value_recursive(k, <<>>, tree[k].value, config).keys \cap DOMAIN tree

\* the documents under the prefix are gone, with their entries
Cleared(before, after, p, config) ==
    /\ \A k \in Documents(after) : ~StartsWith(k, p)
    /\ \A k \in Documents(before) :
            StartsWith(k, p) => DocEntries(before, k, config) \cap DOMAIN after = {}

\* the documents not under the prefix are as they were, with their entries
OthersKept(before, after, p, config) ==
    \A k \in Documents(before) :
        ~StartsWith(k, p)
            => /\ k \in Documents(after)
               /\ after[k] = before[k]
               /\ DocEntries(after, k, config) = DocEntries(before, k, config)

\* C24: a clear_prefix(p) that returns Ok leaves no document whose key
\* starts with p and none of the index entries of those documents, and
\* leaves every other document and its index entries as they were; a
\* drop_database that returns Ok does the same for the empty prefix and
\* leaves no document and no index entry at all.
C24_ClearPrefixFrame ==
    [][(/\ call'.op \in {"clear_prefix", "drop_database"}
        /\ ret'.ok)
       => /\ Cleared(db, db', call'.key, db_config)
          /\ OthersKept(db, db', call'.key, db_config)
          /\ call'.op = "drop_database"
                => Documents(db') = {} /\ IndexEntries(db') = {}]_vars

-----------------------------------------------------------------------------
(* clear_prefix and drop_database next to writers (SpecClear).  Either     *)
(* lists its keys with a scan that runs in no transaction, takes the       *)
(* length of the list as its count, and then deletes the listed keys in    *)
(* one transaction; a writer may commit between the two.                   *)

\* the list and the count are taken: keys_to_delete / all_keys
Listed(op, prefix, keys) ==
    [handler |-> op, prefix |-> prefix, keys |-> keys]

ClearPrefixScan(p) ==
    /\ Len(reqs) < MaxInFlight
    /\ reqs' = Append(reqs,
            Listed("clear_prefix", p,
                {k \in DOMAIN db : StartsWith(k, p) /\ ~HasReservedPrefix(k)}))
    /\ UNCHANGED <<db, db_config, call, ret, prev>>

DropDatabaseScan ==
    /\ Len(reqs) < MaxInFlight
    /\ reqs' = Append(reqs, Listed("drop_database", <<>>, get_all_keys(db)))
    /\ UNCHANGED <<db, db_config, call, ret, prev>>

\* the transaction over the listed keys on the store as it is now, and the
\* return of the count taken from the list
DeleteListedRun(i) ==
    /\ reqs[i].handler \in {"clear_prefix", "drop_database"}
    /\ db' = DeleteListed(db, reqs[i].keys, db_config).db
    /\ call' = Call(reqs[i].handler, reqs[i].prefix, Null, reqs[i])
    /\ ret' = Ret(DeleteListed(db, reqs[i].keys, db_config))
    /\ prev' = History
    /\ reqs' = Without(reqs, i)
    /\ UNCHANGED db_config

ClearPrefixes == {<<>>, KeyA}

NextClear ==
    \/ \E k \in HydrateKeys, v \in WriterDocs : SetKey(k, v)
    \/ \E k \in HydrateKeys : DeleteKey(k)
    \/ \E p \in ClearPrefixes : ClearPrefixScan(p)
    \/ DropDatabaseScan
    \/ \E i \in 1..Len(reqs) : DeleteListedRun(i)

SpecClear == Init /\ [][NextClear]_vars

\* C25: the number a clear_prefix or a drop_database returns is the number
\* of documents its transaction removed from the store, whatever set_key
\* and delete_key calls committed between its scan and its transaction.
C25_CountIsRemoved ==
    [][(/\ call'.op \in {"clear_prefix", "drop_database"}
        /\ ret'.ok)
       => ret'.out = Cardinality(Documents(db) \ Documents(db'))]_vars

-----------------------------------------------------------------------------
(* The value codec as a pair of functions (SpecCodec): each step applies   *)
(* one of them to a scalar drawn from a bounded set.                       *)

\* the integers are the multiples of 97 from -97 * MaxInt to 97 * MaxInt (so
\* that their payloads differ in more than the last byte) and the same
\* multiples above 2^63; the strings are the texts over a and b of at most
\* MaxTextLen characters
MaxInt == 20
MaxTextLen == 2

CodecTexts == SeqsUpTo({"a", "b"}, MaxTextLen)

CodecScalars ==
    {Num(97 * n) : n \in (0 - MaxInt)..MaxInt}
        \cup {UNum(97 * n) : n \in 0..MaxInt}
        \cup {Str(s) : s \in CodecTexts}
        \cup {Bool(b) : b \in BOOLEAN}

EncodedOf(enc) == IF enc.ok THEN enc.bytes ELSE <<>>

\* encode_sorted_value(value)
EncodeValue(s) ==
    /\ call' = Call("encode_sorted_value", <<>>, s, <<>>)
    /\ ret' = [ok |-> encode_sorted_value(s).ok,
               err |-> IF encode_sorted_value(s).ok THEN "none" ELSE "Serde",
               key |-> <<>>,
               out |-> EncodedOf(encode_sorted_value(s))]
    /\ prev' = History
    /\ UNCHANGED <<db, db_config, reqs>>

\* decode_sorted_value(encoded) of the bytes the last step encoded
DecodeValue ==
    /\ call.op = "encode_sorted_value"
    /\ ret.ok
    /\ call' = Call("decode_sorted_value", <<>>, call.value, ret.out)
    /\ ret' = [ok |-> decode_sorted_value(ret.out).ok,
               err |-> IF decode_sorted_value(ret.out).ok THEN "none" ELSE "Serde",
               key |-> <<>>,
               out |-> decode_sorted_value(ret.out).value]
    /\ prev' = History
    /\ UNCHANGED <<db, db_config, reqs>>


NextCodec ==
    \/ \E s \in CodecScalars \cup {Null} : EncodeValue(s)
    \/ DecodeValue

SpecCodec == Init /\ [][NextCodec]_vars

\* C26: for every scalar encode_sorted_value accepts (a signed integer, an
\* integer above i64::MAX, a string, a boolean), decode_sorted_value of its
\* encoding succeeds and compare_values of the decoded value with the scalar
\* is Equal.
C26_DecodeOfEncodeEqual ==
    (call.op = "decode_sorted_value")
        => /\ ret.ok
           /\ compare_values(ret.out, call.value) = "Equal"

\* a negative integer has gone through both and come back as it was
C26_DecodedNegative ==
    /\ call.op = "decode_sorted_value"
    /\ call.value = Num(0 - 97)
    /\ ret.ok
    /\ ret.out = Num(0 - 97)

-----------------------------------------------------------------------------
(* The sorted-index key as a function (SpecKeys): each step composes keys  *)
(* of scalars and primary keys drawn from small sets, or parses one.       *)

TextB == <<"b">>

\* integers of both signs, integers above i64::MAX, strings of which one is
\* a proper prefix of another, the booleans
KeyScalars ==
    {Num(0 - 1), Num(1), Num(2), UNum(0), UNum(1),
     Str(TextA), Str(<<"a", "b">>), Str(TextB), Bool(FALSE), Bool(TRUE)}

\* get_field_sorted_index_key for two values of one kind at one path
ComposeKeys(path, a, ka, b, kb) ==
    /\ a.t = b.t
    /\ a /= b
    /\ call' = Call("get_field_sorted_index_key", path, a,
                    [b |-> b, ka |-> ka, kb |-> kb])
    /\ ret' = [ok |-> TRUE, err |-> "none", key |-> <<>>,
               out |-> [first |-> get_field_sorted_index_key(
                                    path, encode_sorted_value(a).bytes, ka),
                        second |-> get_field_sorted_index_key(
                                    path, encode_sorted_value(b).bytes, kb)]]
    /\ prev' = History
    /\ UNCHANGED <<db, db_config, reqs>>

\* the parse of a key in fetch_keys_sorted_index:
\* key_str.splitn(4, ':'), and `continue` for fewer than four parts
ParseSortedKey(path, s, k) ==
    /\ call' = Call("splitn", k, s,
                    [path |-> path,
                     key_str |-> get_field_sorted_index_key(
                                    path, encode_sorted_value(s).bytes, k)])
    /\ ret' = [ok |-> Len(SplitN(get_field_sorted_index_key(
                            path, encode_sorted_value(s).bytes, k), 4, Colon)) >= 4,
               err |-> "none",
               key |-> <<>>,
               out |-> SplitN(get_field_sorted_index_key(
                            path, encode_sorted_value(s).bytes, k), 4, Colon)]
    /\ prev' = History
    /\ UNCHANGED <<db, db_config, reqs>>

KeyPaths == {PathN, PathMF}

NextKeys ==
    \/ \E a \in KeyScalars, b \in KeyScalars, ka \in Keys, kb \in Keys :
            ComposeKeys(PathN, a, ka, b, kb)
    \/ \E path \in KeyPaths, s \in KeyScalars, k \in Keys :
            ParseSortedKey(path, s, k)

SpecKeys == Init /\ [][NextKeys]_vars

\* a < b in the natural order of the type both scalars have
NaturalLess(a, b) ==
    CASE a.t = "str" -> CompareBytes(as_bytes(a.v), as_bytes(b.v)) = "Less"
      [] a.t = "bool" -> BoolRank(a.v) < BoolRank(b.v)
      [] OTHER -> a.v < b.v

\* C29: for two scalars a < b of one tag (integers of either sign, strings
\* of which one may be a proper prefix of the other), the sorted-index key
\* composed for a is byte-lexicographically smaller than the key composed
\* for b, whatever the two primary keys are.
C29_KeyOrderIsValueOrder ==
    (/\ call.op = "get_field_sorted_index_key"
     /\ NaturalLess(call.value, call.args.b))
    => CompareBytes(as_bytes(ret.out.first), as_bytes(ret.out.second)) = "Less"

\* C30: the parse of fetch_keys_sorted_index, applied to the key composed
\* from (path, encoded value, primary key), has four parts and gives back
\* that path, that hex fragment and that primary key, also for a primary key
\* with ':'; the entry is not skipped.
C30_ParseRecoversParts ==
    call.op = "splitn"
    => /\ ret.ok
       /\ ret.out[2] = call.args.path
       /\ ret.out[3] = hex_encode(encode_sorted_value(call.value).bytes)
       /\ ret.out[4] = call.key

-----------------------------------------------------------------------------
(* Projection and pagination of execute_ast_query (SpecPage).  The Vec a   *)
(* query builds is in the iteration order of the HashSet of its keys,      *)
(* which differs from one HashSet to the next: a call takes any order of   *)
(* its results.                                                            *)

EmptyObject == Obj([x \in {} |-> Null])

InsertOk(x) == [ok |-> TRUE, err |-> "none", value |-> x]
InvalidPath == [ok |-> FALSE, err |-> "InvalidPath", value |-> Null]

\* the name of an object's field a path part stands for (the fields of the
\* model's objects have names of one token)
FieldOf(part) == Head(part)

\* obj.insert(key, value)
WithField(obj, name, x) ==
    Obj([n \in DOMAIN obj.v \cup {name} |-> IF n = name THEN x ELSE obj.v[n]])

\* arr.push(value) for the index at the end, arr[index] = value below it
WithElement(arr, index, x) ==
    IF index = Len(arr.v) THEN InsertOk(Arr(Append(arr.v, x)))
    ELSE IF index < Len(arr.v)
    THEN InsertOk(Arr([arr.v EXCEPT ![index + 1] = x]))
    ELSE InvalidPath

\* the container made for a missing step: an array when the next part is a
\* number, an object otherwise
NewContainer(next_part) ==
    IF IsDigits(next_part) THEN Arr(<<>>) ELSE EmptyObject

\* the value under the first part, or the container made for it
NextTarget(target, path_parts) ==
    IF is_object(target)
    THEN IF FieldOf(path_parts[1]) \in DOMAIN target.v
         THEN InsertOk(target.v[FieldOf(path_parts[1])])
         ELSE InsertOk(NewContainer(path_parts[2]))
    ELSE IF is_array(target) /\ IsDigits(path_parts[1])
    THEN IF ParseNat(path_parts[1]) < Len(target.v)
         THEN InsertOk(target.v[ParseNat(path_parts[1]) + 1])
         ELSE IF ParseNat(path_parts[1]) = Len(target.v)
         THEN InsertOk(NewContainer(path_parts[2]))
         ELSE InvalidPath
    ELSE InvalidPath

\* the value put at the last part of the path
InsertLast(target, part, x) ==
    IF is_object(target) THEN InsertOk(WithField(target, FieldOf(part), x))
    ELSE IF is_array(target) /\ IsDigits(part)
    THEN WithElement(target, ParseNat(part), x)
    ELSE InvalidPath

\* the target with what the rest of the path made of the value under its
\* first part
InsertBack(target, part, sub) ==
    IF ~sub.ok THEN sub ELSE InsertLast(target, part, sub.value)

RECURSIVE insert_value_by_path(_, _, _)
InsertBelow(target, path_parts, next, x) ==
    IF ~next.ok THEN next
    ELSE InsertBack(target, path_parts[1],
            insert_value_by_path(next.value, Tail(path_parts), x))

insert_value_by_path(target, path_parts, value_to_insert) ==
    IF path_parts = <<>> THEN InvalidPath
    ELSE IF Len(path_parts) = 1
    THEN InsertLast(target, path_parts[1], value_to_insert)
    ELSE InsertBelow(target, path_parts, NextTarget(target, path_parts),
                     value_to_insert)


\* elem.get(last_part) of the elements of an array that have one
RECURSIVE ElementFields(_, _)
ElementFields(arr, name) ==
    IF arr = <<>> THEN <<>>
    ELSE IF is_object(Head(arr)) /\ name \in DOMAIN Head(arr).v
    THEN <<Head(arr).v[name]>> \o ElementFields(Tail(arr), name)
    ELSE ElementFields(Tail(arr), name)

\* the array of the children, put at the parent path when it is not empty
InsertChildren(projected_doc, parent_parts, children) ==
    IF children = <<>> THEN InsertOk(projected_doc)
    ELSE insert_value_by_path(projected_doc, parent_parts, Arr(children))

\* a path the document has no value at: the children of the elements of an
\* array-valued parent, or nothing
ProjectMissing(projected_doc, parts, parent) ==
    IF Len(parts) > 1 /\ parent.some /\ is_array(parent.value)
    THEN InsertChildren(projected_doc, SubSeq(parts, 1, Len(parts) - 1),
            ElementFields(parent.value.v, FieldOf(parts[Len(parts)])))
    ELSE InsertOk(projected_doc)

\* one path of the projection on one document
ProjectPath(doc, projected_doc, path, found) ==
    IF found.some
    THEN insert_value_by_path(projected_doc, Split(path, Dot), found.value)
    ELSE ProjectMissing(projected_doc, Split(path, Dot),
            WalkPath(doc, SubSeq(Split(path, Dot), 1, Len(Split(path, Dot)) - 1)))

\* for path in projection { ... }? : the first error ends it
RECURSIVE ProjectPaths(_, _, _)
ProjectRest(doc, r, rest) ==
    IF r.ok THEN ProjectPaths(doc, r.value, rest) ELSE r

ProjectPaths(doc, projected_doc, paths) ==
    IF paths = <<>> THEN InsertOk(projected_doc)
    ELSE ProjectRest(doc,
            ProjectPath(doc, projected_doc, Head(paths),
                        get_value_by_path(doc, Head(paths))),
            Tail(paths))

\* what one document adds to projected_results: its projection, nothing for
\* a document that is no object and no null and yielded nothing, or {}
Pushed(doc, projected_doc) ==
    IF DOMAIN projected_doc.v /= {} \/ (is_object(doc) /\ DOMAIN doc.v = {})
    THEN <<projected_doc>>
    ELSE IF ~is_object(doc) /\ doc.t /= "null" THEN <<>>
    ELSE <<EmptyObject>>

ProjOk(documents) == [ok |-> TRUE, err |-> "none", docs |-> documents]

\* for doc in documents { ... }
RECURSIVE ProjectDocuments(_, _)
ProjectNext(r, rest, pushed) ==
    IF rest.ok THEN ProjOk(pushed \o rest.docs) ELSE rest

ProjectOne(doc, r, rest, projection) ==
    IF ~r.ok THEN QErr(r.err)
    ELSE ProjectNext(r, ProjectDocuments(rest, projection), Pushed(doc, r.value))

ProjectDocuments(documents, projection) ==
    IF documents = <<>> THEN ProjOk(<<>>)
    ELSE ProjectOne(Head(documents),
            ProjectPaths(Head(documents), EmptyObject, projection),
            Tail(documents), projection)

apply_projection(documents, projection) ==
    IF projection = <<>> THEN ProjOk(documents)
    ELSE ProjectDocuments(documents, projection)


\* results.into_iter().skip(start).take(limit_count), or nothing when the
\* offset is not below the length
Paginate(results, limit, offset) ==
    IF (IF offset.some THEN offset.value ELSE 0) < Len(results)
    THEN SubSeq(results,
            (IF offset.some THEN offset.value ELSE 0) + 1,
            IF limit.some /\ limit.value
                    < Len(results) - (IF offset.some THEN offset.value ELSE 0)
            THEN (IF offset.some THEN offset.value ELSE 0) + limit.value
            ELSE Len(results))
    ELSE <<>>

\* the orders a Vec collected from a HashSet can be in
OrdersOf(keys) ==
    {order \in [1..Cardinality(keys) -> keys] :
        \A i, j \in 1..Cardinality(keys) : order[i] = order[j] => i = j}

\* the documents of a result in one order
InOrder(r, order) == [i \in 1..Len(order) |-> r.docs[order[i]]]

\* the end of execute_ast_query: pagination, then the projection if one is
\* given
PageAndProject(results, projection, limit, offset) ==
    IF projection.some
    THEN apply_projection(Paginate(results, limit, offset), projection.value)
    ELSE ProjOk(Paginate(results, limit, offset))

\* execute_ast_query with its projection, limit and offset: the node as
\* execute_ast_query above runs it, its results in the order given
execute_ast_query_full(r, order, projection, limit, offset) ==
    IF r.ok THEN PageAndProject(InOrder(r, order), projection, limit, offset)
    ELSE r


PathTF == <<"t", Dot, "f">>

\* a document that is a string, and one whose array holds objects
DocText == Str(TextX)
DocItems == Obj([f |-> Str(TextA), t |-> Arr(<<Obj([f |-> Str(TextX)])>>)])

PageDocs == {DocA, DocAX, DocItems, DocText}

PageNodes ==
    {Eq(PathF, Str(TextA)),
     Not(Includes(PathT, Str(TextX))),
     Or(Eq(PathF, Str(TextA)), Includes(PathT, Str(TextX)))}

\* Option::None of a list of paths and of a usize
NoPaths == [some |-> FALSE, value |-> <<>>]
NoCount == [some |-> FALSE, value |-> 0]

Projections == {NoPaths, Some(<<PathF>>), Some(<<PathTF>>)}
Limits == {NoCount, Some(1)}
Offsets == {NoCount, Some(1)}

\* the orders the Vec of a call can be in (none to choose from for a node
\* that fails)
ResultOrders(r) == IF r.ok THEN OrdersOf(DOMAIN r.docs) ELSE {<<>>}

PageResult(r) == [ok |-> r.ok, err |-> r.err, key |-> <<>>, out |-> r.docs]

\* execute_ast_query(db, query_node, projection, limit, offset, config)
QueryAstPage(q, projection, limit, offset, order) ==
    /\ call' = Call("execute_ast_query", <<>>, Null,
                    [ast |-> q, projection |-> projection, limit |-> limit,
                     offset |-> offset, order |-> order])
    /\ ret' = PageResult(execute_ast_query_full(
                    execute_ast_query(db, q, db_config), order,
                    projection, limit, offset))
    /\ prev' = History
    /\ UNCHANGED <<db, db_config, reqs>>

NextPage ==
    \/ \E k \in HydrateKeys, v \in PageDocs : SetKey(k, v)
    \/ \E k \in HydrateKeys : DeleteKey(k)
    \/ \E q \in PageNodes, projection \in Projections, limit \in Limits,
          offset \in Offsets :
            \E order \in ResultOrders(execute_ast_query(db, q, db_config)) :
                QueryAstPage(q, projection, limit, offset, order)

SpecPage == Init /\ [][NextPage]_vars

Min(a, b) == IF a < b THEN a ELSE b
Max(a, b) == IF a > b THEN a ELSE b

OrZero(option) == IF option.some THEN option.value ELSE 0

\* min(l, max(0, n - o)), a limit not given being no limit
PageSize(n, limit, offset) ==
    IF limit.some THEN Min(limit.value, Max(0, n - OrZero(offset)))
    ELSE Max(0, n - OrZero(offset))

\* the projection of one document: the values it has at the paths
ProjectionOf(doc, projection) ==
    IF projection.some /\ projection.value /= <<>>
    THEN ProjectPaths(doc, EmptyObject, projection.value).value
    ELSE doc

\* the call returns the projections of the documents at the positions
\* offset + 1 .. offset + size of the unpaginated result in the call's order
IsPageOf(out, r, args) ==
    /\ Len(out) = PageSize(Len(args.order), args.limit, args.offset)
    /\ \A i \in 1..Len(out) :
            out[i] = ProjectionOf(r.docs[args.order[OrZero(args.offset) + i]],
                                  args.projection)

\* C27: execute_ast_query with an offset o, a limit l and a projection
\* returns the projections of the elements at the positions [o, o + l) of
\* the result of the same node run without them (And, Or and Not run their
\* children without them): min(l, max(0, n - o)) documents, n the size of
\* that result, offset before limit and projection last.
C27_PageOfUnpaginated ==
    [][(/\ call'.op = "execute_ast_query"
        /\ execute_ast_query(db, call'.args.ast, db_config).ok)
       => /\ ret'.ok
          /\ IsPageOf(ret'.out,
                execute_ast_query(db, call'.args.ast, db_config),
                call'.args)]_vars

-----------------------------------------------------------------------------
(* Not over each kind of leaf (SpecNot).  Primary keys and values hold no  *)
(* ':'.                                                                    *)

NotDocs == {DocA, DocAX, DocOne, DocTwo, DocAt(0, 0)}

NotNodes ==
    {Not(Eq(PathF, Str(TextA))),
     Not(Includes(PathT, Str(TextX))),
     Not(Gt(PathN, Num(1))),
     Not(GeoInBox(PathLoc, -1, -1, 1, 1)),
     Not(GeoWithinRadius(PathLoc, 0, 0, 1))}

NextNot ==
    \/ \E k \in HydrateKeys, v \in NotDocs : SetKey(k, v)
    \/ \E k \in HydrateKeys : DeleteKey(k)
    \/ \E q \in NotNodes : QueryAst(q)

SpecNot == Init /\ [][NextNot]_vars

\* the document has at the path a number in the order the operator names
\* with the number y
OrderedAt(doc, path, operator, y) ==
    /\ get_value_by_path(doc, path).some
    /\ get_value_by_path(doc, path).value.t = "num"
    /\ IF operator = "!=" THEN get_value_by_path(doc, path).value.v /= y
       ELSE Ordered(get_value_by_path(doc, path).value.v, operator, y)

\* the document has at the path a point the geo leaf holds
PointWithin(doc, q) ==
    /\ HasPointAt(doc, q.field)
    /\ IF q.op = "GeoInBox"
       THEN RectContains(q.min_lat, q.min_lon, q.max_lat, q.max_lon,
                         ThePointAt(doc, q.field))
       ELSE haversine_distance(ThePointAt(doc, q.field),
                               [lat |-> q.lat, lon |-> q.lon]) <= q.radius

\* the document satisfies the predicate of the leaf
SatisfiesLeaf(doc, q) ==
    CASE q.op = "Eq" -> HasValueAt(doc, q.field, q.value)
      [] q.op = "Includes" -> HasOrContainsAt(doc, q.field, q.value)
      [] q.op \in {"GeoInBox", "GeoWithinRadius"} -> PointWithin(doc, q)
      [] OTHER -> OrderedAt(doc, q.field, SortedOperatorOf(q.op), q.value.v)

\* C28: execute_ast_query(Not(C)) for a leaf C of any kind (Eq, Includes,
\* an ordered comparison, a geo leaf) succeeds and returns exactly the
\* present documents that do not satisfy the predicate of C.
C28_NotReturnsComplement ==
    [][(/\ call'.op = "query_ast"
        /\ call'.args.op = "Not")
       => /\ ret'.ok
          /\ DOMAIN ret'.out
                = {k \in Documents(db) : ~SatisfiesLeaf(db[k].value, call'.args.node)}
          /\ \A k \in DOMAIN ret'.out : ret'.out[k] = db[k].value]_vars

-----------------------------------------------------------------------------
(* The equality-index lookup as a function of the store (SpecLookup).      *)
(* Primary keys hold no ':'; one value text extends another with ':'.      *)

LookupDocs == {DocA, DocAB, DocAX}
LookupValues == {Str(TextA), Str(TextAB), Str(TextX)}

\* fetch_keys_hash_index for one path and one value
FetchKeysHashIndex(path, s) ==
    /\ call' = Call("fetch_keys_hash_index", path, s, <<>>)
    /\ ret' = [ok |-> TRUE, err |-> "none", key |-> <<>>,
               out |-> fetch_keys_hash_index(db, path, s)]
    /\ prev' = History
    /\ UNCHANGED <<db, db_config, reqs>>

NextLookup ==
    \/ \E k \in HydrateKeys, v \in LookupDocs : SetKey(k, v)
    \/ \E k \in HydrateKeys : DeleteKey(k)
    \/ \E path \in {PathF, PathT}, s \in LookupValues : FetchKeysHashIndex(path, s)

SpecLookup == Init /\ [][NextLookup]_vars

\* C31: with primary keys free of ':', the equality-index lookup for
\* (P, s) yields exactly the primary keys k whose entry composed from
\* (P, s, k) is in the store, also when value texts hold ':': an entry
\* composed for another value text is not matched.
C31_LookupYieldsComposedKeys ==
    call.op = "fetch_keys_hash_index"
    => ret.out = {k \in HydrateKeys :
                    tree_has(db, get_field_index_key(call.key, value_str(call.value), k))}

-----------------------------------------------------------------------------
(* Writing a key again (SpecRewrite).  The call served before the current  *)
(* one is kept in prev.                                                    *)

DocSeven == Obj([f |-> Num(7), n |-> Num(7)])
DocNine == Obj([f |-> Num(9), n |-> Num(9)])

RewriteDocs == {DocSeven, DocNine, DocA, DocAB, DocFull}

InitRewrite ==
    /\ db = EmptyDb
    /\ db_config = LibConfig
    /\ call = NoCall
    /\ ret = Ret(Done(EmptyDb, <<>>))
    /\ prev = NoCall
    /\ reqs = <<>>

NextRewrite ==
    \/ \E k \in Keys, v \in RewriteDocs : SetKey(k, v)
    \/ \E k \in Keys : DeleteKey(k)

SpecRewrite == InitRewrite /\ [][NextRewrite]_vars

\* the equality key and the sorted keys of (path, k) for the scalar the
\* document has at the path, if the path is configured for the index
EntryKeysAt(doc, path, k, config) ==
    IF get_value_by_path(doc, path).some
    THEN (IF path \in config.hash_indexed_fields
          THEN {get_field_index_key(path,
                    value_str(get_value_by_path(doc, path).value), k)}
          ELSE {})
         \cup (IF path \in config.sorted_indexed_fields
               THEN SortedKeyOf(encode_sorted_value(
                        get_value_by_path(doc, path).value), path, k)
               ELSE {})
    ELSE {}

\* the index keys of k for the scalars of a document of flat fields
EntryKeysOf(doc, k, config) ==
    UNION {EntryKeysAt(doc, path, k, config) : path \in {PathF, PathN}}

\* C32: a successful set_key(k, v) leaves the document v at k and every
\* index entry of (k, v) present, also when v is the value already stored
\* at k; the same write served twice in a row leaves the store after the
\* second as after the first; and the entries of the value stored before
\* that are not entries of v (7 at an indexed path, now 9) are absent
\* afterwards.
C32_SetKeyIdempotent ==
    [][(call'.op = "set_key" /\ ret'.ok)
       => /\ Read(db', call'.key).ok
          /\ Read(db', call'.key).out = call'.value
          /\ EntryKeysOf(call'.value, call'.key, db_config) \subseteq DOMAIN db'
          /\ (call = call' /\ ret.ok) => db' = db
          /\ Read(db, call'.key).ok
               => (EntryKeysOf(Read(db, call'.key).out, call'.key, db_config)
                        \ EntryKeysOf(call'.value, call'.key, db_config))
                       \cap DOMAIN db' = {}]_vars

\* the document {f: 7, n: 7} at "b:c" has been replaced by {f: 9, n: 9}: the
\* entries for 9 are in the store
C32_SevenBecameNine ==
    /\ prev = Call("set_key", KeyBC, DocSeven, <<>>)
    /\ call = Call("set_key", KeyBC, DocNine, <<>>)
    /\ ret.ok
    /\ Cardinality(EntryKeysOf(DocNine, KeyBC, db_config) \cap DOMAIN db) = 2

-----------------------------------------------------------------------------
(* The read operations (SpecReads): the library reads and the query_ast    *)
(* handler of the server, which records the field of the query in the      *)
(* shared configuration before it runs the query.                          *)

\* get_partial_key: get_key, apply_projection of the one document, and
\* NotFound when the projection pushed nothing
PartialOf(r, projected) ==
    IF ~r.ok THEN QErr(r.err)
    ELSE IF ~projected.ok THEN QErr(projected.err)
    ELSE IF projected.docs = <<>> THEN QErr("NotFound")
    ELSE [ok |-> TRUE, err |-> "none", docs |-> projected.docs[1]]

get_partial_key(tree, key, fields) ==
    PartialOf(get_key(tree, key),
              IF get_key(tree, key).ok
              THEN apply_projection(<<get_key(tree, key).out>>, fields)
              ELSE ProjOk(<<>>))

GetPartialKey(k, fields) ==
    ServeRead(get_partial_key(db, k, fields),
              Call("get_partial_key", k, Null, fields))

QueryWithinRadius(field_path, lat, lon, radius) ==
    ServeRead(query_within_radius_simplified(db, field_path, lat, lon, radius),
              Call("query_within_radius_simplified", field_path, Null,
                   <<lat, lon, radius>>))

QueryInBox(field_path, min_lat, min_lon, max_lat, max_lon) ==
    ServeRead(query_in_box(db, field_path, min_lat, min_lon, max_lat, max_lon),
              Call("query_in_box", field_path, Null,
                   <<min_lat, min_lon, max_lat, max_lon>>))

ReadsDocs == {DocNested, DocAt(0, 0)}

NextReads ==
    \/ \E k \in ServerKeys, v \in ReadsDocs : SetKey(k, v)
    \/ \E k \in ServerKeys : GetKey(k)
    \/ \E k \in ServerKeys : GetPartialKey(k, <<PathMF>>)
    \/ QueryAnd(<<Condition(PathMF, "===", TextA)>>)
    \/ \E q \in ServerQueries : QueryAst(q)
    \/ \E q \in ServerQueries : QueryAstHandlerClone(q)
    \/ \E i \in 1..Len(reqs) : QueryAstHandlerRun(i)
    \/ QueryWithinRadius(PathLoc, 0, 0, 1)
    \/ QueryInBox(PathLoc, -1, -1, 1, 1)
    \/ ExportData

SpecReads == Init /\ [][NextReads]_vars

ReadOps ==
    {"get_key", "get_partial_key", "query_and", "query_ast",
     "query_within_radius_simplified", "query_in_box", "export_data"}

\* C33: a step that serves a read (get_key, get_partial_key, query_and,
\* execute_ast_query with its full-scan fallback, the two geo queries,
\* export_data) leaves the store as it was: no document and no index entry
\* is created, changed or removed.
C33_ReadsLeaveStore ==
    [][call'.op \in ReadOps => db' = db]_vars

\* the handler has served Eq(m.f, "a") by the full scan: the path is
\* recorded, a document is returned, and no index entry exists for it
C33_FallbackServed ==
    /\ call.op = "query_ast"
    /\ call.args = Eq(PathMF, Str(TextA))
    /\ PathMF \in db_config.hash_indexed_fields
    /\ ret.ok
    /\ DOMAIN ret.out /= {}
    /\ fetch_keys_hash_index(db, PathMF, Str(TextA)) = {}

-----------------------------------------------------------------------------
(* apply_projection as a function (SpecProject): each step projects one    *)
(* object document on one or two paths.                                    *)

PathT1 == <<"t", Dot, "1">>
PathM == <<"m">>

DocList == Obj([t |-> Arr(<<Str(TextX), Str(TextY)>>)])

ProjectDocs == {DocA, DocAX, DocList, DocNested}
ProjectPathsOf == {PathF, PathT, PathT0, PathT1, PathM, PathMF}

ApplyProjection(doc, projection) ==
    /\ call' = Call("apply_projection", <<>>, doc, projection)
    /\ ret' = [ok |-> apply_projection(<<doc>>, projection).ok,
               err |-> apply_projection(<<doc>>, projection).err,
               key |-> <<>>,
               out |-> apply_projection(<<doc>>, projection).docs]
    /\ prev' = History
    /\ UNCHANGED <<db, db_config, reqs>>

NextProject ==
    \E doc \in ProjectDocs, p \in ProjectPathsOf, q \in ProjectPathsOf :
        \/ ApplyProjection(doc, <<p>>)
        \/ ApplyProjection(doc, <<p, q>>)

SpecProject == Init /\ [][NextProject]_vars

\* every path of the projection is present in the document
AllPresent(doc, projection) ==
    \A i \in 1..Len(projection) : get_value_by_path(doc, projection[i]).some

\* C34: projecting an object document on paths that are present in it
\* (paths through an array element at an index above 0 included) succeeds,
\* and the value at each path of the projected document is the value at
\* that path of the original.
C34_ProjectionKeepsValues ==
    (/\ call.op = "apply_projection"
     /\ AllPresent(call.value, call.args))
    => /\ ret.ok
       /\ Len(ret.out) = 1
       /\ \A i \in 1..Len(call.args) :
            get_value_by_path(ret.out[1], call.args[i])
                = get_value_by_path(call.value, call.args[i])

-----------------------------------------------------------------------------
(* And and Or over documents that may be equal under distinct primary      *)
(* keys (SpecSets)                                                         *)

DocX == Obj([f |-> Str(TextX)])

SetsDocs == {DocA, DocAX, DocX}

SetsNodes ==
    {And(Eq(PathF, Str(TextA)), Includes(PathT, Str(TextX))),
     And(Eq(PathF, Str(TextA)), Eq(PathF, Str(TextA))),
     Or(Eq(PathF, Str(TextA)), Includes(PathT, Str(TextX))),
     Or(Eq(PathF, Str(TextA)), Eq(PathF, Str(TextX))),
     Or(Includes(PathT, Str(TextX)), Eq(PathF, Str(TextX))),
     And(Includes(PathT, Str(TextX)), Eq(PathF, Str(TextX)))}

NextSets ==
    \/ \E k \in HydrateKeys, v \in SetsDocs : SetKey(k, v)
    \/ \E k \in HydrateKeys : DeleteKey(k)
    \/ \E q \in SetsNodes : QueryAst(q)

SpecSets == Init /\ [][NextSets]_vars

\* the documents of the two children's results, joined as the node says
JoinedSets(op, left_results, right_results) ==
    IF op = "And" THEN DocSet(left_results) \cap DocSet(right_results)
    ELSE DocSet(left_results) \cup DocSet(right_results)

\* C35: when both children succeed, And(L, R) returns the intersection and
\* Or(L, R) the union of the children's results as sets of document values,
\* and no two documents of the result are equal: identical documents under
\* distinct primary keys are one result document.
C35_AndOrAreSetOperations ==
    (/\ call.op = "query_ast"
     /\ call.args.op \in {"And", "Or"}
     /\ execute_ast_query(db, call.args.left, db_config).ok
     /\ execute_ast_query(db, call.args.right, db_config).ok)
    => /\ ret.ok
       /\ ResultDocuments(ret)
            = JoinedSets(call.args.op,
                         execute_ast_query(db, call.args.left, db_config),
                         execute_ast_query(db, call.args.right, db_config))
       /\ Cardinality(DOMAIN ret.out) = Cardinality(ResultDocuments(ret))

\* two primary keys hold the same document and Or has returned it once
C35_EqualDocumentsOnce ==
    /\ call.op = "query_ast"
    /\ call.args.op = "Or"
    /\ Documents(db) = HydrateKeys
    /\ db[KeyA].value = DocA
    /\ db[KeyC].value = DocA
    /\ ret.ok
    /\ Cardinality(DOMAIN ret.out) = 1
    /\ ResultDocuments(ret) = {DocA}

-----------------------------------------------------------------------------
(* The shared configuration under the requests of the server and the       *)
(* query_ast binding of the wasm crate (SpecConfig)                        *)

\* Database::query_ast of the wasm crate: hash_indexed_fields.insert(field)
\* of the first Eq leaf, a clone of the configuration, execute_ast_query
WasmQueryAst(q) ==
    /\ db_config' = [db_config EXCEPT !.hash_indexed_fields =
                        IF extract_eq_field(q).some
                        THEN @ \cup {extract_eq_field(q).value}
                        ELSE @]
    /\ call' = Call("wasm_query_ast", <<>>, Null, q)
    /\ ret' = [ok |-> execute_ast_query(db, q, db_config').ok,
               err |-> execute_ast_query(db, q, db_config').err,
               key |-> <<>>,
               out |-> execute_ast_query(db, q, db_config').docs]
    /\ prev' = History
    /\ UNCHANGED <<db, reqs>>

\* one primary key and two documents: the configuration is what varies
NextConfig ==
    \/ \E v \in {DocA, DocNested} : SetHandler(KeyA, v)
    \/ DeleteHandlerClone(KeyA)
    \/ \E i \in 1..Len(reqs) : DeleteHandlerRun(i)
    \/ \E q \in ServerQueries : QueryAstHandlerClone(q)
    \/ \E i \in 1..Len(reqs) : QueryAstHandlerRun(i)
    \/ \E q \in ServerQueries : WasmQueryAst(q)

SpecConfig == InitServer /\ [][NextConfig]_vars

\* the paths a query may record: the path of its first Eq leaf and the
\* dotted prefixes of it
RecordedBy(q) ==
    IF extract_eq_field(q).some
    THEN PathPrefixes(Split(extract_eq_field(q).value, Dot))
    ELSE {}

\* the query a step has accepted, or Null when it accepted none
AcceptedQuery(q, q2, c) ==
    IF Len(q2) = Len(q) + 1 /\ q2[Len(q2)].handler = "query_ast"
    THEN q2[Len(q2)].ast
    ELSE IF c.op = "wasm_query_ast" THEN c.args
    ELSE Null

\* C36: every step leaves sorted_indexed_fields and geo_indexed_fields as
\* they were and removes nothing from hash_indexed_fields; what it adds are
\* paths recorded by the query_ast request it accepted, and a request whose
\* paths are all recorded already leaves the configuration as it was.
C36_ConfigOnlyGrows ==
    [][/\ db_config.hash_indexed_fields \subseteq db_config'.hash_indexed_fields
       /\ db_config'.sorted_indexed_fields = db_config.sorted_indexed_fields
       /\ db_config'.geo_indexed_fields = db_config.geo_indexed_fields
       /\ db_config' /= db_config
            => /\ AcceptedQuery(reqs, reqs', call') /= Null
               /\ (db_config'.hash_indexed_fields \ db_config.hash_indexed_fields)
                    \subseteq RecordedBy(AcceptedQuery(reqs, reqs', call'))
       /\ (/\ AcceptedQuery(reqs, reqs', call') /= Null
           /\ RecordedBy(AcceptedQuery(reqs, reqs', call'))
                \subseteq db_config.hash_indexed_fields)
            => db_config' = db_config]_vars

\* Eq(m.f, "a") has been accepted twice after Eq(f, "a") was recorded: both
\* requests hold the configuration with f, m and m.f
C36_RecordedTwice ==
    /\ Len(reqs) = 2
    /\ reqs[1].ast = Eq(PathMF, Str(TextA))
    /\ reqs[2].ast = Eq(PathMF, Str(TextA))
    /\ reqs[1].config = db_config
    /\ reqs[2].config = db_config
    /\ db_config.hash_indexed_fields = {PathF, PathM, PathMF}

-----------------------------------------------------------------------------
(* Lists of operations on one key (SpecOrder): batch_set and               *)
(* execute_transaction over sets of three documents and deletes.           *)

OrderDocs == {DocSeven, DocNine, DocA}
OrderItems == {SetOp(k, v) : k \in Keys, v \in OrderDocs}
OrderOps == OrderItems \cup {DeleteOp(k) : k \in Keys}

NextOrder ==
    \/ \E k \in Keys, v \in OrderDocs : SetKey(k, v)
    \/ \E items \in SeqsUpTo(OrderItems, MaxOps) : BatchSet(items)
    \/ \E ops \in SeqsUpTo(OrderOps, MaxOps) : ExecuteTransaction(ops)

SpecOrder == Init /\ [][NextOrder]_vars

\* the store holds the later value at the key, its entries, and none of the
\* entries only the earlier value has
LaterValueOnly(tree, k, earlier, later, config) ==
    /\ Read(tree, k).ok
    /\ Read(tree, k).out = later
    /\ EntryKeysOf(later, k, config) \subseteq DOMAIN tree
    /\ (EntryKeysOf(earlier, k, config) \ EntryKeysOf(later, k, config))
            \cap DOMAIN tree = {}

\* the store holds no document at the key and no index entry whose
\* primary-key fragment is the key
NothingOf(tree, k) ==
    /\ ~tree_has(tree, k)
    /\ \A x \in IndexEntries(tree) : ~EndsWith(x, <<Colon>> \o k)

\* C37: a successful batch_set or execute_transaction of two operations on
\* one key acts in list order: after two sets the store holds the document
\* and the index entries of the later value only, and after a set followed
\* by a delete it holds neither the document nor any index entry for the key.
C37_OperationsInListOrder ==
    [][(/\ call'.op \in TransactionalOps
        /\ ret'.ok
        /\ Len(call'.args) = 2
        /\ call'.args[1].key = call'.args[2].key
        /\ call'.args[1].type = "set")
       => IF call'.args[2].type = "set"
          THEN LaterValueOnly(db', call'.args[2].key, call'.args[1].value,
                              call'.args[2].value, db_config)
          ELSE NothingOf(db', call'.args[2].key)]_vars

-----------------------------------------------------------------------------
(* An Eq or Includes query next to writers that change the indexed field   *)
(* (SpecStale): set_key may commit between the index scan of the query and *)
(* its get_key of each candidate.                                          *)

StaleDocs == {DocA, DocX, DocAX}

NextStale ==
    \/ \E k \in HydrateKeys, v \in StaleDocs : SetKey(k, v)
    \/ \E q \in HydrateNodes : QueryScan(q)
    \/ \E i \in 1..Len(reqs) : QueryHydrate(i)

SpecStale == Init /\ [][NextStale]_vars

\* C38: whatever set_key calls commit between the index scan of an Eq or
\* Includes query and its hydration, every document the query returns
\* satisfies the predicate of the query.
C38_ReturnedSatisfyPredicate ==
    (call.op = "hydrate" /\ ret.ok)
    => \A d \in ResultDocuments(ret) : SatisfiesLeaf(d, call.args.ast)

-----------------------------------------------------------------------------
(* query_ast requests whose AST holds two Eq leaves (SpecLeaves)           *)

DocBoth == Obj([f |-> Str(TextA), m |-> Obj([f |-> Str(TextA)])])

LeavesDocs == {DocA, DocNested, DocBoth}

LeavesQueries ==
    {And(Eq(PathF, Str(TextA)), Eq(PathMF, Str(TextA))),
     And(Eq(PathMF, Str(TextA)), Eq(PathF, Str(TextA))),
     Or(Eq(PathF, Str(TextA)), Eq(PathMF, Str(TextA)))}

NextLeaves ==
    \/ \E v \in LeavesDocs : SetHandler(KeyA, v)
    \/ \E q \in LeavesQueries : QueryAstHandlerClone(q)
    \/ \E i \in 1..Len(reqs) : QueryAstHandlerRun(i)
    \/ \E q \in LeavesQueries : WasmQueryAst(q)

SpecLeaves == InitServer /\ [][NextLeaves]_vars

\* the paths of the Eq leaves of an AST
RECURSIVE EqFields(_)
EqFields(q) ==
    CASE q.op = "Eq" -> {q.field}
      [] q.op \in {"And", "Or"} -> EqFields(q.left) \cup EqFields(q.right)
      [] q.op = "Not" -> EqFields(q.node)
      [] OTHER -> {}

\* the document satisfies the predicate of the AST
RECURSIVE SatisfiesNode(_, _)
SatisfiesNode(doc, q) ==
    CASE q.op = "And" -> SatisfiesNode(doc, q.left) /\ SatisfiesNode(doc, q.right)
      [] q.op = "Or" -> SatisfiesNode(doc, q.left) \/ SatisfiesNode(doc, q.right)
      [] q.op = "Not" -> ~SatisfiesNode(doc, q.node)
      [] OTHER -> SatisfiesLeaf(doc, q)

\* C39: when a query_ast request is served, the path of every Eq leaf of
\* its AST is in hash_indexed_fields, the query succeeds, and it returns
\* the present documents that satisfy the whole predicate.
C39_EveryEqLeafRecorded ==
    [][call'.op \in {"query_ast", "wasm_query_ast"}
       => /\ EqFields(call'.args) \subseteq db_config'.hash_indexed_fields
          /\ ret'.ok
          /\ ResultDocuments(ret')
                = {db[k].value : k \in {x \in Documents(db) :
                                          SatisfiesNode(db[x].value, call'.args)}}]_vars

-----------------------------------------------------------------------------
(* Deleting a primary key that has no document (SpecAbsent).  Documents    *)
(* are written under the plain keys; any key the calls accept is deleted.  *)

AbsentDocs == {DocA, DocAB}

NextAbsent ==
    \/ \E k \in Keys, v \in AbsentDocs : SetKey(k, v)
    \/ \E k \in KVKeys : DeleteKey(k)
    \/ \E k \in KVKeys : ExecuteTransaction(<<DeleteOp(k)>>)
    \/ \E k \in KVKeys : GetKey(k)

SpecAbsent == Init /\ [][NextAbsent]_vars

\* the key a step deletes, by delete_key or by the Delete operation that is
\* the whole of a transaction; <<>> when the step deletes none
DeletedKey(c) ==
    IF c.op = "delete_key" THEN c.key
    ELSE IF c.op = "execute_transaction" /\ Len(c.args) = 1
            /\ c.args[1].type = "delete"
    THEN c.args[1].key
    ELSE <<>>

\* C40: delete_key, or a Delete operation in execute_transaction, on a
\* primary key that has no document succeeds and leaves the store, index
\* entries that mention the key included, as it was.
C40_DeleteOfAbsentKey ==
    [][(/\ DeletedKey(call') /= <<>>
        /\ DeletedKey(call') \notin Documents(db))
       => /\ ret'.ok
          /\ db' = db]_vars

=============================================================================
